---- MODULE Spec2Model ----
(***************************************************************************)
(* Model of the CLOUDPROTO library: the packet codec, the framed socket,   *)
(* the TS (event transport) handshake and the TsEventSocket stream/sink.   *)
(*                                                                         *)
(* Bytes are integers 0..255, byte strings are sequences of bytes.         *)
(* Option<T> is a sequence of length 0 (None) or 1 (Some(x)).              *)
(***************************************************************************)
EXTENDS Integers, Sequences, FiniteSets, TLC

(***************************************************************************)
(* Bounds of the model                                                     *)
(***************************************************************************)
\* inbound items the peer may put on the wire towards a session
MaxInbound == 2
\* events the caller sends through a session's sink
MaxSends == 2
\* largest capacity (bytes) of the outbound transport pipe
MaxCap == 24
\* FramedWrite's backpressure boundary (bytes); the library default is 8 KiB
BackpressureBoundary == 16
\* events sent by the peer in the receive-only scenarios
NEvents == 2
\* largest capacity (bytes) of the outbound pipe in the receive-only scenarios
MaxPipe == 40
\* items a rogue peer may put on the wire during a handshake
MaxInject == 2

(***************************************************************************)
(* Program constants                                                       *)
(***************************************************************************)
HDR_TXID_SIZE == 8
FIRST_TXID == 512
TXID_INCREMENT == 256
EVT_HDR_LEN == 4
COMMON_HDR_LEN == 8
\* 4 * 16 + 8: the size of the Connect payload
CONNECT_PAYLOAD_LEN == 72
\* the expected size of the ConnectionEstablished payload
CONNECT_REPLY_LEN == 17
AgentIdStatus_Unchanged == 1
AgentIdStatus_Changed == 2

None == <<>>
Some(x) == <<x>>

Min(a, b) == IF a < b THEN a ELSE b

\* the element of a set of one element: Only({e(x) : x \in {v}}) is e(v) with
\* v computed once
Only(S) == CHOOSE y \in S : TRUE

(***************************************************************************)
(* Big-endian integers                                                     *)
(***************************************************************************)
RECURSIVE to_be_bytes(_, _)
\* u64::to_be_bytes and the byteorder write_uN::<BE> calls: the w low bytes
\* of n, most significant first (so a cast to the w-byte type is included)
to_be_bytes(n, w) ==
    IF w = 0 THEN <<>> ELSE to_be_bytes(n \div 256, w - 1) \o <<n % 256>>

RECURSIVE from_be_bytes(_)
\* u64::from_be_bytes and the byteorder read_uN::<BE> calls
from_be_bytes(b) ==
    IF Len(b) = 0 THEN 0
    ELSE 256 * from_be_bytes(SubSeq(b, 1, Len(b) - 1)) + b[Len(b)]

\* [v; n]
Fill(n, v) == [i \in 1..n |-> v]

(***************************************************************************)
(* Wire tag types (services.rs, framing/hdr_version.rs, ts/pkt_kind.rs)    *)
(***************************************************************************)
Magic_TS == [tag |-> "TS", val |-> 0]
Magic_LFO == [tag |-> "LFO", val |-> 0]
Magic_Other(x) == [tag |-> "Other", val |-> x]

\* impl From<CloudProtoMagic> for u8
MagicToU8(m) ==
    CASE m.tag = "TS" -> 143
      [] m.tag = "LFO" -> 159
      [] OTHER -> m.val

\* impl From<u8> for CloudProtoMagic
MagicFromU8(x) ==
    IF x = MagicToU8(Magic_TS) THEN Magic_TS
    ELSE IF x = MagicToU8(Magic_LFO) THEN Magic_LFO
    ELSE Magic_Other(x)

Version_Normal == [tag |-> "Normal", val |-> 0]
Version_Connect == [tag |-> "Connect", val |-> 0]
Version_Other(x) == [tag |-> "Other", val |-> x]

\* impl From<CloudProtoVersion> for u16
VersionToU16(v) ==
    CASE v.tag = "Normal" -> 1
      [] v.tag = "Connect" -> 2
      [] OTHER -> v.val

\* impl From<u16> for CloudProtoVersion
VersionFromU16(x) ==
    IF x = VersionToU16(Version_Normal) THEN Version_Normal
    ELSE IF x = VersionToU16(Version_Connect) THEN Version_Connect
    ELSE Version_Other(x)

TsKind_Connect == [tag |-> "Connect", val |-> 0]
TsKind_ConnectionEstablished == [tag |-> "ConnectionEstablished", val |-> 0]
TsKind_Event == [tag |-> "Event", val |-> 0]
TsKind_Ack == [tag |-> "Ack", val |-> 0]
TsKind_Other(x) == [tag |-> "Other", val |-> x]

\* impl From<TsPacketKind> for u8
TsKindToU8(k) ==
    CASE k.tag = "Connect" -> 1
      [] k.tag = "ConnectionEstablished" -> 2
      [] k.tag = "Event" -> 3
      [] k.tag = "Ack" -> 4
      [] OTHER -> k.val

\* (mutant) the arm of Ack is missing
TsKindFromU8_NoAck(x) ==
    IF x = TsKindToU8(TsKind_Connect) THEN TsKind_Connect
    ELSE IF x = TsKindToU8(TsKind_ConnectionEstablished) THEN TsKind_ConnectionEstablished
    ELSE IF x = TsKindToU8(TsKind_Event) THEN TsKind_Event
    ELSE TsKind_Other(x)

\* impl From<u8> for TsPacketKind
TsKindFromU8(x) ==
    IF x = TsKindToU8(TsKind_Connect) THEN TsKind_Connect
    ELSE IF x = TsKindToU8(TsKind_ConnectionEstablished) THEN TsKind_ConnectionEstablished
    ELSE IF x = TsKindToU8(TsKind_Event) THEN TsKind_Event
    ELSE IF x = TsKindToU8(TsKind_Ack) THEN TsKind_Ack
    ELSE TsKind_Other(x)

LfoKind_GetFileRequest == [tag |-> "GetFileRequest", val |-> 0]
LfoKind_ReplyOk == [tag |-> "ReplyOk", val |-> 0]
LfoKind_ReplyFail == [tag |-> "ReplyFail", val |-> 0]
LfoKind_Other(x) == [tag |-> "Other", val |-> x]

\* impl From<LfoPacketKind> for u8
LfoKindToU8(k) ==
    CASE k.tag = "GetFileRequest" -> 1
      [] k.tag = "ReplyOk" -> 2
      [] k.tag = "ReplyFail" -> 3
      [] OTHER -> k.val

\* impl From<u8> for LfoPacketKind
LfoKindFromU8(x) ==
    IF x = LfoKindToU8(LfoKind_GetFileRequest) THEN LfoKind_GetFileRequest
    ELSE IF x = LfoKindToU8(LfoKind_ReplyOk) THEN LfoKind_ReplyOk
    ELSE IF x = LfoKindToU8(LfoKind_ReplyFail) THEN LfoKind_ReplyFail
    ELSE LfoKind_Other(x)

\* impl PartialEq<TsPacketKind> for u8: the packet's kind byte against a kind
KindIs(kindByte, k) == TsKindToU8(k) = kindByte

(***************************************************************************)
(* Packet codec (framing/packet.rs)                                        *)
(***************************************************************************)
CloudProtoPacket(magic, kind, version, payload) ==
    [magic |-> magic, kind |-> kind, version |-> version, payload |-> payload]

\* (mutant) the length field counts the payload only
to_buf_PayloadLength(pkt) ==
    <<MagicToU8(pkt.magic), pkt.kind>>
        \o to_be_bytes(VersionToU16(pkt.version), 2)
        \o to_be_bytes(Len(pkt.payload), 4)
        \o pkt.payload

\* CloudProtoPacket::to_buf
to_buf(pkt) ==
    <<MagicToU8(pkt.magic), pkt.kind>>
        \o to_be_bytes(VersionToU16(pkt.version), 2)
        \o to_be_bytes(Len(pkt.payload) + COMMON_HDR_LEN, 4)
        \o pkt.payload

\* CloudProtoPacket::from_buf.  The result is [res, pkt, a, b]:
\*   res = "ok"        the packet pkt
\*   res = "Io"        a header read hit the end of the buffer
\*   res = "BadSize"   the error BadSize(a, b)
\*   res = "Underflow" the announced length is below COMMON_HDR_LEN, where
\*                     the usize subtraction overflows: a panic in a build
\*                     with overflow checks, BadSize(a, b + 2^64) in a build
\*                     without (b is the negative difference here)
from_buf(buf) ==
    LET nopkt == CloudProtoPacket(Magic_TS, 0, Version_Normal, <<>>)
    IN  IF Len(buf) < COMMON_HDR_LEN
        THEN [res |-> "Io", pkt |-> nopkt, a |-> 0, b |-> 0]
        ELSE
          LET magic == MagicFromU8(buf[1])
              kind == buf[2]
              version == VersionFromU16(from_be_bytes(SubSeq(buf, 3, 4)))
              announced == from_be_bytes(SubSeq(buf, 5, 8))
              remaining_size == Len(buf) - COMMON_HDR_LEN
          IN  IF announced < COMMON_HDR_LEN
              THEN [res |-> "Underflow", pkt |-> nopkt, a |-> remaining_size,
                    b |-> announced - COMMON_HDR_LEN]
              ELSE IF remaining_size # announced - COMMON_HDR_LEN
              THEN [res |-> "BadSize", pkt |-> nopkt, a |-> remaining_size,
                    b |-> announced - COMMON_HDR_LEN]
              ELSE [res |-> "ok",
                    pkt |-> CloudProtoPacket(magic, kind, version,
                                             SubSeq(buf, COMMON_HDR_LEN + 1, Len(buf))),
                    a |-> 0, b |-> 0]

(***************************************************************************)
(* Events (services/ts/event.rs)                                           *)
(***************************************************************************)
\* the discriminants of enum EventId
EventIdCatalog ==
    { 822083823, 813695146, 813695149, 813695442, 813695495, 813695496,
      813695501, 813695630, 813695638, 813695650, 813695708, 813695709,
      813695717, 813695718, 813695729, 813695821, 813695868, 813696087,
      813696336, 813696590, 813696642, 813696671, 813697104, 822083586,
      822084049, 822084927, 822085035, 830472881, 830472933, 830472934,
      830473403, 838861134, 838861344, 838861519, 838861541, 838861542,
      847249721, 847249742, 855638329, 864026796, 872415470 }

\* EventId::from_repr
EventId_from_repr(raw) == IF raw \in EventIdCatalog THEN Some(raw) ELSE None

\* Event::new
Event_new(event_id, data) ==
    [raw_event_id |-> event_id, event_id |-> Some(event_id), data |-> data]

\* Event::new_raw
Event_new_raw(raw_event_id, data) ==
    [raw_event_id |-> raw_event_id, event_id |-> None, data |-> data]

\* Event::from_read on a buffer of at least EVT_HDR_LEN bytes
Event_from_read(b) ==
    LET raw == from_be_bytes(SubSeq(b, 1, EVT_HDR_LEN))
    IN  [raw_event_id |-> raw,
         event_id |-> EventId_from_repr(raw),
         data |-> SubSeq(b, EVT_HDR_LEN + 1, Len(b))]

\* Event::into_write into a Vec: the bytes appended
Event_into_write(ev) == to_be_bytes(ev.raw_event_id, EVT_HDR_LEN) \o ev.data

(***************************************************************************)
(* State                                                                   *)
(***************************************************************************)
VARIABLES
    \* TsEventSocket
    next_txid, unacked_txid, unacked_event,
    \* read half of the session's CloudProtoSocket: the items the peer has
    \* put on the wire that poll_next has not taken yet, and whether the peer
    \* has closed its side
    inq, inClosed,
    \* write half: every frame passed to FramedWrite::start_send so far, in
    \* order, and how many of their bytes have left the write buffer for the
    \* transport
    outLog, wrote,
    \* outbound transport pipe: its capacity, the bytes the peer has read from
    \* it, and whether the next write to it fails
    cap, peerRead, outFail,
    \* wakers registered with the read and the write half, and whether the
    \* task that polls the receive stream is scheduled
    rdWaker, wrWaker, woken,
    \* history: the number of items the peer has put on the wire, the Event
    \* packets poll_next has taken (their txid, or -1 when the payload is too
    \* short to hold an event), the txid of the Event packet last buffered,
    \* the events returned to the caller, the result of the poll_next that has
    \* just returned (NoPoll after a step of anything else)
    nIn, recvLog, ghost_txid, delivered, last,
    \* TS handshake: the two tasks, the two directions of their transport
    hs_c, hs_s, c2s, s2c,
    \* one direction of a pair of framed sockets at the level of bytes: the
    \* write half of one side, the transport, the read half of the other
    link,
    \* a call of one of the crate's pure functions: its input and its result
    calc,
    \* the session at the other end of the transport, when there is one
    other

svars == <<next_txid, unacked_txid, unacked_event, inq, inClosed, outLog, wrote,
           cap, peerRead, outFail, rdWaker, wrWaker, woken, nIn, recvLog,
           ghost_txid, delivered, last>>
hvars == <<hs_c, hs_s, c2s, s2c>>
xvars == <<link, calc, other>>
vars == <<svars, hvars, xvars>>

(***************************************************************************)
(* Framed socket (framing/socket.rs) over FramedRead / FramedWrite         *)
(***************************************************************************)
RECURSIVE TotalLen(_)
TotalLen(frames) ==
    IF frames = <<>> THEN 0 ELSE Len(Head(frames)) + TotalLen(Tail(frames))

\* bytes in FramedWrite's buffer, free room in the transport pipe
BufLen(s) == TotalLen(s.outLog) - s.wrote
Avail(s) == s.cap - (s.wrote - s.peerRead)

IoRes(res, s) == [res |-> res, s |-> s]

\* CloudProtoSocket::poll_flush: FramedWrite writes its buffer to the
\* transport until it is empty; a full transport leaves the rest buffered,
\* registers the waker and gives Pending, a failed write gives the error
IoPollFlush(s) ==
    IF BufLen(s) = 0 THEN IoRes("ready", s)
    ELSE IF s.outFail THEN IoRes("err", [s EXCEPT !.outFail = FALSE])
    ELSE Only({ IF BufLen(s1) = 0 THEN IoRes("ready", s1)
                ELSE IoRes("pending", [s1 EXCEPT !.wrWaker = TRUE]) :
                s1 \in {[s EXCEPT !.wrote = @ + Min(BufLen(s), Avail(s))]} })

\* CloudProtoSocket::poll_ready: FramedWrite is ready unless its buffer has
\* reached the backpressure boundary, and then it flushes
IoPollReady(s) ==
    IF BufLen(s) >= BackpressureBoundary THEN IoPollFlush(s) ELSE IoRes("ready", s)

\* (mutant) the packet is put in front of what the write buffer holds
IoStartSend_Front(s, pkt) == [s EXCEPT !.outLog = <<to_buf(pkt)>> \o @]

\* CloudProtoSocket::start_send: encode the packet into the write buffer
IoStartSend(s, pkt) == [s EXCEPT !.outLog = Append(@, to_buf(pkt))]

IoErr == [kind |-> "Io", a |-> 0, b |-> 0]
NoErr == [kind |-> "", a |-> 0, b |-> 0]
NoPkt == CloudProtoPacket(Magic_TS, 0, Version_Normal, <<>>)

\* an item of the read half: a complete frame, or a transport read error
FrameItem(bytes) == [t |-> "frame", bytes |-> bytes]
IoErrItem == [t |-> "ioerr", bytes |-> <<>>]

\* what the read half makes of one item: CloudProtoSocket::poll_next's two
\* matches, on the frame result and on from_buf's result
DecodeItem(it) ==
    IF it.t = "ioerr" THEN [res |-> "err", pkt |-> NoPkt, err |-> IoErr]
    ELSE Only({ IF d.res = "ok" THEN [res |-> "pkt", pkt |-> d.pkt, err |-> NoErr]
                ELSE [res |-> "err", pkt |-> NoPkt,
                      err |-> [kind |-> d.res, a |-> d.a, b |-> d.b]] :
                d \in {from_buf(it.bytes)} })

(***************************************************************************)
(* The read half byte by byte                                              *)
(* (framing/socket.rs: the transport a writer fills, and the               *)
(* FramedRead<LengthDelimitedCodec> of the reading side)                   *)
(***************************************************************************)
\* the max_frame_length the reading side is built with
MaxFrameLength == 10
\* packets or chunks the writing side passes, polls of the read half
MaxLinkSends == 2
MaxLinkItems == 4
\* read errors of the transport
MaxLinkFails == 1

\* the builder's settings in with_max_frame_length
LENGTH_FIELD_LEN == 4
LENGTH_ADJUSTMENT == 0
LENGTH_FIELD_OFFSET == 4
NUM_SKIP == 0

RECURSIVE Flatten(_)
Flatten(frames) ==
    IF frames = <<>> THEN <<>> ELSE Head(frames) \o Flatten(Tail(frames))

\* the bytes the transport holds: left the write buffer, not read yet
PipeBytes(l) == SubSeq(Flatten(l.outLog), l.peerRead + 1, l.wrote)

\* the link after both CloudProtoSocket::with_max_frame_length: nothing
\* written, the read half in its state `reading` with the codec at a head.
\* writer tells who writes: "crate" (a CloudProtoSocket) or "raw" (any
\* program); sent, got and fails are history: the packets passed to
\* start_send, the items poll_next has given, the read errors so far.
LinkNew(c, writer, max_frame_length) ==
    [pc |-> "on", writer |-> writer, max_frame_length |-> max_frame_length,
     outLog |-> <<>>, wrote |-> 0, cap |-> c, peerRead |-> 0, outFail |-> FALSE,
     wrWaker |-> FALSE, closed |-> FALSE, rdFail |-> FALSE,
     buffer |-> <<>>, eof |-> FALSE, is_readable |-> FALSE, has_errored |-> FALSE,
     state |-> None,
     sent |-> <<>>, got |-> <<>>, fails |-> 0]

\* (mutant) the length field is taken as the length of the payload
decode_head_PayloadLength(l) ==
    IF Len(l.buffer) < LENGTH_FIELD_OFFSET + LENGTH_FIELD_LEN
    THEN [res |-> "none", n |-> 0]
    ELSE Only({ IF n > l.max_frame_length THEN [res |-> "err", n |-> n]
                ELSE [res |-> "some", n |-> n + COMMON_HDR_LEN] :
                n \in {from_be_bytes(SubSeq(l.buffer, LENGTH_FIELD_OFFSET + 1,
                                            LENGTH_FIELD_OFFSET + LENGTH_FIELD_LEN))} })

\* LengthDelimitedCodec::decode_head: nothing before the 8 bytes that end
\* with the length field are there; an error, and nothing consumed, for a
\* length above max_frame_length; else the length (num_skip = 0: the head
\* stays in the buffer)
decode_head(l) ==
    IF Len(l.buffer) < LENGTH_FIELD_OFFSET + LENGTH_FIELD_LEN
    THEN [res |-> "none", n |-> 0]
    ELSE Only({ IF n > l.max_frame_length THEN [res |-> "err", n |-> n]
                ELSE [res |-> "some", n |-> n + LENGTH_ADJUSTMENT] :
                n \in {from_be_bytes(SubSeq(l.buffer, LENGTH_FIELD_OFFSET + 1,
                                            LENGTH_FIELD_OFFSET + LENGTH_FIELD_LEN))} })

\* LengthDelimitedCodec::decode: the head, then the n bytes of the frame
\* once the buffer holds them
decode(l) ==
    Only({ IF h.res = "none" THEN [res |-> "none", frame |-> <<>>, l |-> l]
           ELSE IF h.res = "err" THEN [res |-> "err", frame |-> <<>>, l |-> l]
           ELSE IF Len(l.buffer) < h.n
           THEN [res |-> "none", frame |-> <<>>, l |-> [l EXCEPT !.state = Some(h.n)]]
           ELSE [res |-> "some", frame |-> SubSeq(l.buffer, 1, h.n),
                 l |-> [l EXCEPT !.state = None,
                                 !.buffer = SubSeq(@, h.n + NUM_SKIP + 1, Len(@))]] :
           h \in {IF l.state = None THEN decode_head(l)
                  ELSE [res |-> "some", n |-> l.state[1]]} })

\* Decoder::decode_eof (the default, which the codec keeps): decode, and an
\* error if no frame comes out of a buffer that is not empty
decode_eof(l) ==
    Only({ IF d.res = "none" /\ d.l.buffer # <<>>
           THEN [res |-> "err", frame |-> <<>>, l |-> d.l]
           ELSE d :
           d \in {decode(l)} })

\* (mutant) a read error discards the bytes the transport holds
poll_read_buf_LosesBytes(l) ==
    IF l.rdFail
    THEN [res |-> "err", n |-> 0, l |-> [l EXCEPT !.rdFail = FALSE, !.peerRead = l.wrote]]
    ELSE IF l.wrote > l.peerRead
    THEN [res |-> "ready", n |-> l.wrote - l.peerRead,
          l |-> [l EXCEPT !.buffer = @ \o PipeBytes(l), !.peerRead = l.wrote,
                          !.wrWaker = FALSE]]
    ELSE IF l.closed THEN [res |-> "ready", n |-> 0, l |-> l]
    ELSE [res |-> "pending", n |-> 0, l |-> l]

\* poll_read_buf on the transport: an error, the bytes it holds, 0 bytes once
\* the writer has closed, or Pending
poll_read_buf(l) ==
    IF l.rdFail THEN [res |-> "err", n |-> 0, l |-> [l EXCEPT !.rdFail = FALSE]]
    ELSE IF l.wrote > l.peerRead
    THEN [res |-> "ready", n |-> l.wrote - l.peerRead,
          l |-> [l EXCEPT !.buffer = @ \o PipeBytes(l), !.peerRead = l.wrote,
                          !.wrWaker = FALSE]]
    ELSE IF l.closed THEN [res |-> "ready", n |-> 0, l |-> l]
    ELSE [res |-> "pending", n |-> 0, l |-> l]

FrRes(res, frame, l) == [res |-> res, frame |-> frame, l |-> l]

RECURSIVE FramedRead_poll_next(_), FramedRead_read(_)

\* FramedRead::poll_next: None once after an error; frames out of the buffer
\* while it is readable; else a read of the transport
FramedRead_poll_next(l) ==
    IF l.has_errored
    THEN FrRes("none", <<>>, [l EXCEPT !.is_readable = FALSE, !.has_errored = FALSE])
    ELSE IF l.is_readable /\ l.eof
    THEN Only({ CASE d.res = "err" -> FrRes("err", <<>>, [d.l EXCEPT !.has_errored = TRUE])
                  [] d.res = "none" -> FrRes("none", <<>>, [d.l EXCEPT !.is_readable = FALSE])
                  [] OTHER -> FrRes("frame", d.frame, d.l) :
                d \in {decode_eof(l)} })
    ELSE IF l.is_readable
    THEN Only({ CASE d.res = "err" -> FrRes("err", <<>>, [d.l EXCEPT !.has_errored = TRUE])
                  [] d.res = "none" -> FramedRead_read([d.l EXCEPT !.is_readable = FALSE])
                  [] OTHER -> FrRes("frame", d.frame, d.l) :
                d \in {decode(l)} })
    ELSE FramedRead_read(l)

\* the part of the loop that reads the transport
FramedRead_read(l) ==
    Only({ CASE r.res = "err" -> FrRes("err", <<>>, [r.l EXCEPT !.has_errored = TRUE])
             [] r.res = "pending" -> FrRes("pending", <<>>, r.l)
             [] r.n = 0 /\ r.l.eof -> FrRes("none", <<>>, r.l)
             [] r.n = 0 ->
                 FramedRead_poll_next([r.l EXCEPT !.eof = TRUE, !.is_readable = TRUE])
             [] OTHER ->
                 FramedRead_poll_next([r.l EXCEPT !.eof = FALSE, !.is_readable = TRUE]) :
           r \in {poll_read_buf(l)} })

\* (mutant) a frame that from_buf rejects ends the sequence
Link_poll_next_EndOnBadPacket(l) ==
    Only({ CASE f.res = "frame" /\ from_buf(f.frame).res = "ok" ->
                 [item |-> DecodeItem(FrameItem(f.frame)), l |-> f.l]
             [] f.res = "frame" ->
                 [item |-> [res |-> "none", pkt |-> NoPkt, err |-> NoErr], l |-> f.l]
             [] f.res = "err" -> [item |-> DecodeItem(IoErrItem), l |-> f.l]
             [] OTHER -> [item |-> [res |-> f.res, pkt |-> NoPkt, err |-> NoErr],
                          l |-> f.l] :
           f \in {FramedRead_poll_next(l)} })

\* CloudProtoSocket::poll_next over the bytes: the frame through from_buf, the
\* error of the read half as Io, None, or Pending
Link_poll_next(l) ==
    Only({ CASE f.res = "frame" -> [item |-> DecodeItem(FrameItem(f.frame)), l |-> f.l]
             [] f.res = "err" -> [item |-> DecodeItem(IoErrItem), l |-> f.l]
             [] OTHER -> [item |-> [res |-> f.res, pkt |-> NoPkt, err |-> NoErr],
                          l |-> f.l] :
           f \in {FramedRead_poll_next(l)} })

\* an item of the read half that stands for the None FramedRead gives once
\* after an error
EndItem == [t |-> "end", bytes |-> <<>>]

\* CloudProtoSocket::poll_next of a session. The read half is either the
\* byte-level one (s.rd) or, where the peer writes whole frames, the queue
\* of its items: the next item, None after a close or once after a read
\* error, or Pending with the waker registered
IoPollNext(s) ==
    IF s.rd.pc = "on"
    THEN Only({ [res |-> r.item.res, pkt |-> r.item.pkt, err |-> r.item.err,
                 s |-> [s EXCEPT !.rd = (IF r.item.res = "pending" THEN r.l
                                         ELSE [r.l EXCEPT !.got = Append(@, r.item)]),
                                 !.rdWaker = (@ \/ r.item.res = "pending")]] :
                r \in {Link_poll_next(s.rd)} })
    ELSE IF s.inq # <<>>
    THEN IF Head(s.inq) = EndItem
         THEN [res |-> "none", pkt |-> NoPkt, err |-> NoErr,
               s |-> [s EXCEPT !.inq = Tail(@)]]
         ELSE Only({ [res |-> d.res, pkt |-> d.pkt, err |-> d.err,
                      s |-> [s EXCEPT !.inq = (IF Head(s.inq) = IoErrItem
                                               THEN <<EndItem>> \o Tail(@)
                                               ELSE Tail(@))]] :
                     d \in {DecodeItem(Head(s.inq))} })
    ELSE IF s.inClosed
    THEN [res |-> "none", pkt |-> NoPkt, err |-> NoErr, s |-> s]
    ELSE [res |-> "pending", pkt |-> NoPkt, err |-> NoErr,
          s |-> [s EXCEPT !.rdWaker = TRUE]]

(***************************************************************************)
(* TsEventSocket (services/ts/socket.rs)                                   *)
(***************************************************************************)
\* TsEventSocket::new: the session fields
TsEventSocket_new ==
    [next_txid |-> FIRST_TXID, unacked_txid |-> None, unacked_event |-> None]

NoEvent == Event_new_raw(0, <<>>)

\* (mutant) the Ack carries the txid that follows the event's
AckPacket_NextTxid(txid) ==
    CloudProtoPacket(Magic_TS, TsKindToU8(TsKind_Ack), Version_Normal,
                     to_be_bytes(txid + 1, HDR_TXID_SIZE))

\* the Ack packet poll_next builds for a txid
AckPacket(txid) ==
    CloudProtoPacket(Magic_TS, TsKindToU8(TsKind_Ack), Version_Normal,
                     to_be_bytes(txid, HDR_TXID_SIZE))

\* (mutant) the txid is written after the event
EventPacket_TxidLast(txid, ev) ==
    CloudProtoPacket(Magic_TS, TsKindToU8(TsKind_Event), Version_Normal,
                     Event_into_write(ev) \o to_be_bytes(txid, HDR_TXID_SIZE))

\* the Event packet start_send builds
EventPacket(txid, ev) ==
    CloudProtoPacket(Magic_TS, TsKindToU8(TsKind_Event), Version_Normal,
                     to_be_bytes(txid, HDR_TXID_SIZE) \o Event_into_write(ev))

\* what one call of poll_next gives: the state it leaves and its result,
\* kind = "event" (Some(Ok(ev))), "err" (Some(Err(err))), "end" (None),
\* "pending" or "panic" (an assert! failed)
Ret(s, kind, ev, err) == [s |-> s, kind |-> kind, ev |-> ev, err |-> err]

\* if let Some(txid) = &this.unacked_txid
HasPendingAck(s) == s.unacked_txid # None

\* (mutant) Pending without the flush
OnInboundPending_NoFlush(s) == Ret(s, "pending", NoEvent, NoErr)

\* the Pending arm of the receive loop: flush the send side, then Pending
OnInboundPending(s) ==
    Only({ IF f.res = "err" THEN Ret(f.s, "err", NoEvent, IoErr)
           ELSE Ret(f.s, "pending", NoEvent, NoErr) :
           f \in {IoPollFlush(s)} })

\* (mutant) the event is buffered without the txid to acknowledge
OnEventPacket_NoAck(s, pkt) ==
    IF Len(pkt.payload) < HDR_TXID_SIZE + EVT_HDR_LEN
    THEN Ret([s EXCEPT !.recvLog = Append(@, -1)], "err", NoEvent,
             [kind |-> "PayloadTooShort", a |-> Len(pkt.payload),
              b |-> HDR_TXID_SIZE + EVT_HDR_LEN])
    ELSE Ret([s EXCEPT !.unacked_event =
                           Some(Event_from_read(SubSeq(pkt.payload, HDR_TXID_SIZE + 1,
                                                       Len(pkt.payload)))),
                       !.recvLog =
                           Append(@, from_be_bytes(SubSeq(pkt.payload, 1, HDR_TXID_SIZE))),
                       !.ghost_txid =
                           from_be_bytes(SubSeq(pkt.payload, 1, HDR_TXID_SIZE))],
             "buffered", NoEvent, NoErr)

\* (mutant) the txid of a short Event packet is put in its slot
OnEventPacket_ShortAcked(s, pkt) ==
    IF Len(pkt.payload) < HDR_TXID_SIZE + EVT_HDR_LEN
    THEN Ret([s EXCEPT !.recvLog = Append(@, -1),
                       !.unacked_txid = Some(0),
                       !.unacked_event = Some(Event_new_raw(0, <<>>))],
             "err", NoEvent,
             [kind |-> "PayloadTooShort", a |-> Len(pkt.payload),
              b |-> HDR_TXID_SIZE + EVT_HDR_LEN])
    ELSE Ret([s EXCEPT !.unacked_txid =
                           Some(from_be_bytes(SubSeq(pkt.payload, 1, HDR_TXID_SIZE))),
                       !.unacked_event =
                           Some(Event_from_read(SubSeq(pkt.payload, HDR_TXID_SIZE + 1,
                                                       Len(pkt.payload)))),
                       !.recvLog =
                           Append(@, from_be_bytes(SubSeq(pkt.payload, 1, HDR_TXID_SIZE))),
                       !.ghost_txid =
                           from_be_bytes(SubSeq(pkt.payload, 1, HDR_TXID_SIZE))],
             "buffered", NoEvent, NoErr)

\* (mutant) the txid is buffered without its event
OnEventPacket_TxidOnly(s, pkt) ==
    IF Len(pkt.payload) < HDR_TXID_SIZE + EVT_HDR_LEN
    THEN Ret([s EXCEPT !.recvLog = Append(@, -1)], "err", NoEvent,
             [kind |-> "PayloadTooShort", a |-> Len(pkt.payload),
              b |-> HDR_TXID_SIZE + EVT_HDR_LEN])
    ELSE Ret([s EXCEPT !.unacked_txid =
                           Some(from_be_bytes(SubSeq(pkt.payload, 1, HDR_TXID_SIZE))),
                       !.recvLog =
                           Append(@, from_be_bytes(SubSeq(pkt.payload, 1, HDR_TXID_SIZE))),
                       !.ghost_txid =
                           from_be_bytes(SubSeq(pkt.payload, 1, HDR_TXID_SIZE))],
             "buffered", NoEvent, NoErr)

\* the Event arm of the receive loop, up to `continue 'process_pending_acks`:
\* the error for a short payload, else the two slots filled
OnEventPacket(s, pkt) ==
    IF Len(pkt.payload) < HDR_TXID_SIZE + EVT_HDR_LEN
    THEN Ret([s EXCEPT !.recvLog = Append(@, -1)], "err", NoEvent,
             [kind |-> "PayloadTooShort", a |-> Len(pkt.payload),
              b |-> HDR_TXID_SIZE + EVT_HDR_LEN])
    ELSE LET txid == from_be_bytes(SubSeq(pkt.payload, 1, HDR_TXID_SIZE))
             ev == Event_from_read(SubSeq(pkt.payload, HDR_TXID_SIZE + 1,
                                          Len(pkt.payload)))
         IN  IF s.unacked_txid # None \/ s.unacked_event # None
             THEN Ret(s, "panic", NoEvent, NoErr)
             ELSE Ret([s EXCEPT !.unacked_txid = Some(txid),
                                !.unacked_event = Some(ev),
                                !.recvLog = Append(@, txid),
                                !.ghost_txid = txid],
                      "buffered", NoEvent, NoErr)

\* the frames of a log that hold a packet of the given kind (the kind is the
\* second byte of the header to_buf writes)
IsAckFrame(f) == KindIs(f[2], TsKind_Ack)
IsEventFrame(f) == KindIs(f[2], TsKind_Event)

\* the txid an Ack or Event frame carries: the first bytes of its payload
FrameTxid(f) ==
    from_be_bytes(SubSeq(f, COMMON_HDR_LEN + 1, COMMON_HDR_LEN + HDR_TXID_SIZE))

\* the branch on the buffered event: return it and empty the slot (the history
\* notes the event with the txid of its packet and the number of Ack packets
\* passed to start_send before this moment)
TakeEvent(s) ==
    IF s.unacked_txid # None THEN Ret(s, "panic", NoEvent, NoErr)
    ELSE Ret([s EXCEPT !.unacked_event = None,
                       !.delivered =
                           Append(@, [ev |-> s.unacked_event[1],
                                      txid |-> s.ghost_txid,
                                      nAcks |-> Len(SelectSeq(s.outLog, IsAckFrame))])],
             "event", s.unacked_event[1], NoErr)

\* (mutant) the txid stays in its slot after start_send
SendAck_SlotKept(s) ==
    Only({ IF f.res = "pending" THEN Ret(f.s, "pending", NoEvent, NoErr)
           ELSE IF f.res = "err" THEN Ret(f.s, "err", NoEvent, IoErr)
           ELSE TakeEvent(f.s) :
           f \in {IoPollFlush(IoStartSend(s, AckPacket(s.unacked_txid[1])))} })

\* the Ack of the buffered txid, once the write half is ready: start_send,
\* the slot emptied, the flush, and the event returned if the flush is done
SendAck(s) ==
    Only({ IF f.res = "pending" THEN Ret(f.s, "pending", NoEvent, NoErr)
           ELSE IF f.res = "err" THEN Ret(f.s, "err", NoEvent, IoErr)
           ELSE TakeEvent(f.s) :
           f \in {IoPollFlush([IoStartSend(s, AckPacket(s.unacked_txid[1]))
                                  EXCEPT !.unacked_txid = None])} })

RECURSIVE process_pending_acks(_), receive_packets(_)

\* the loop 'process_pending_acks of TsEventSocket::poll_next, from its top
process_pending_acks(s) ==
    IF HasPendingAck(s)
    THEN IF s.unacked_event = None THEN Ret(s, "panic", NoEvent, NoErr)
         ELSE Only({ IF r.res = "pending" THEN Ret(r.s, "pending", NoEvent, NoErr)
                     ELSE IF r.res = "err" THEN Ret(r.s, "err", NoEvent, IoErr)
                     ELSE SendAck(r.s) :
                     r \in {IoPollReady(s)} })
    ELSE IF s.unacked_event # None THEN TakeEvent(s)
    ELSE receive_packets(s)

\* (mutant) an Ack whose payload is not a txid ends the poll with an error
receive_packets_AckSizeChecked(s) ==
    Only({ CASE r.res = "err" -> Ret(r.s, "err", NoEvent, r.err)
             [] r.res = "none" -> Ret(r.s, "end", NoEvent, NoErr)
             [] r.res = "pending" -> OnInboundPending(r.s)
             [] OTHER ->
                 IF KindIs(r.pkt.kind, TsKind_Ack)
                 THEN IF Len(r.pkt.payload) = HDR_TXID_SIZE THEN receive_packets(r.s)
                      ELSE Ret(r.s, "err", NoEvent,
                               [kind |-> "PayloadTooShort", a |-> Len(r.pkt.payload),
                                b |-> HDR_TXID_SIZE])
                 ELSE IF KindIs(r.pkt.kind, TsKind_Event)
                 THEN Only({ IF e.kind = "buffered" THEN process_pending_acks(e.s)
                             ELSE e :
                             e \in {OnEventPacket(r.s, r.pkt)} })
                 ELSE receive_packets(r.s) :
           r \in {IoPollNext(s)} })

\* the loop '_receive_packets of TsEventSocket::poll_next
receive_packets(s) ==
    Only({ CASE r.res = "err" -> Ret(r.s, "err", NoEvent, r.err)
             [] r.res = "none" -> Ret(r.s, "end", NoEvent, NoErr)
             [] r.res = "pending" -> OnInboundPending(r.s)
             [] OTHER ->
                 IF KindIs(r.pkt.kind, TsKind_Ack) THEN receive_packets(r.s)
                 ELSE IF KindIs(r.pkt.kind, TsKind_Event)
                 THEN Only({ IF e.kind = "buffered" THEN process_pending_acks(e.s)
                             ELSE e :
                             e \in {OnEventPacket(r.s, r.pkt)} })
                 ELSE receive_packets(r.s) :
           r \in {IoPollNext(s)} })

\* TsEventSocket::poll_next
poll_next(s) == process_pending_acks(s)

\* (mutant) poll_ready waits until the pending Ack has been sent
Sink_poll_ready_AfterAck(s) ==
    IF HasPendingAck(s) THEN IoRes("pending", [s EXCEPT !.wrWaker = TRUE])
    ELSE IoPollReady(s)

\* Sink::poll_ready, poll_flush for TsEventSocket
Sink_poll_ready(s) == IoPollReady(s)
Sink_poll_flush(s) == IoPollFlush(s)
\* Sink::poll_close: FramedWrite flushes its buffer and, once that is done,
\* shuts the transport down for writing (Ready then stands for both)
Sink_poll_close(s) == IoPollFlush(s)

\* (mutant) the txid is not advanced
Sink_start_send_SameTxid(s, ev) == IoStartSend(s, EventPacket(s.next_txid, ev))

\* Sink::start_send for TsEventSocket (next_txid is a u64; the model's sends
\* stay far below its wrap-around)
Sink_start_send(s, ev) ==
    IoStartSend([s EXCEPT !.next_txid = @ + TXID_INCREMENT],
                EventPacket(s.next_txid, ev))

(***************************************************************************)
(* The session as a state machine                                          *)
(***************************************************************************)
\* the state a handler of the session works on
Cur ==
    [next_txid |-> next_txid, unacked_txid |-> unacked_txid,
     unacked_event |-> unacked_event, inq |-> inq, inClosed |-> inClosed,
     outLog |-> outLog, wrote |-> wrote, cap |-> cap, peerRead |-> peerRead,
     outFail |-> outFail, rdWaker |-> rdWaker, wrWaker |-> wrWaker,
     recvLog |-> recvLog, ghost_txid |-> ghost_txid, delivered |-> delivered,
     rd |-> link]

Commit(s) ==
    /\ next_txid' = s.next_txid
    /\ unacked_txid' = s.unacked_txid
    /\ unacked_event' = s.unacked_event
    /\ inq' = s.inq
    /\ inClosed' = s.inClosed
    /\ outLog' = s.outLog
    /\ wrote' = s.wrote
    /\ cap' = s.cap
    /\ peerRead' = s.peerRead
    /\ outFail' = s.outFail
    /\ rdWaker' = s.rdWaker
    /\ wrWaker' = s.wrWaker
    /\ recvLog' = s.recvLog
    /\ ghost_txid' = s.ghost_txid
    /\ delivered' = s.delivered
    /\ link' = s.rd

NoPoll == [kind |-> "none", err |-> NoErr]

\* the capacities of the outbound transport pipe that are tried
Caps == {c \in 1..MaxCap : c % 16 = 8}

\* a session right after TsEventSocket::new, over a transport of capacity c
SessionInit(c) ==
    /\ next_txid = TsEventSocket_new.next_txid
    /\ unacked_txid = TsEventSocket_new.unacked_txid
    /\ unacked_event = TsEventSocket_new.unacked_event
    /\ inq = <<>>
    /\ inClosed = FALSE
    /\ outLog = <<>>
    /\ wrote = 0
    /\ cap = c
    /\ peerRead = 0
    /\ outFail = FALSE
    /\ rdWaker = FALSE
    /\ wrWaker = FALSE
    /\ woken = TRUE
    /\ nIn = 0
    /\ recvLog = <<>>
    /\ ghost_txid = 0
    /\ delivered = <<>>
    /\ last = NoPoll

\* TsConnectInfo, TsConnectResponse
TsConnectInfo(cid, unk0, aid, bootid, pt) ==
    [cid |-> cid, unk0 |-> unk0, aid |-> aid, bootid |-> bootid, pt |-> pt]
TsConnectResponse(agent_id_status, aid) ==
    [agent_id_status |-> agent_id_status, aid |-> aid]

NoInfo == TsConnectInfo(<<>>, <<>>, <<>>, <<>>, <<>>)
NoItem == [t |-> "none", bytes |-> <<>>]

\* a task of the handshake: where it stands (pc), the TsConnectInfo it was
\* given (client) or has parsed (server), the error it failed with, what it
\* logged about the reply, and as history the items it has taken from its
\* framed socket (their number, the first of them) and whether its packet
\* has been sent
HsTask(pc, info) ==
    [pc |-> pc, info |-> info, err |-> NoErr, log |-> "", nread |-> 0,
     first |-> NoItem, sent |-> FALSE]

\* no byte-level link, no call of a pure function, no peer session
Off == [pc |-> "off"]
OthersIdle ==
    /\ link = Off
    /\ calc = Off
    /\ other = Off

\* no handshake is running
HandshakeIdle ==
    /\ hs_c = HsTask("off", NoInfo)
    /\ hs_s = HsTask("off", NoInfo)
    /\ c2s = <<>>
    /\ s2c = <<>>

\* a step of anything but poll_next: no poll_next has just returned (a panic
\* of the polling task stays)
NotAPoll == last' = (IF last.kind = "panic" THEN last ELSE NoPoll)

\* The task that reads the stream calls poll_next when it is scheduled, and
\* is scheduled again unless the call gave Pending.
PollNext ==
    /\ woken
    /\ last.kind # "panic"
    /\ \E r \in {poll_next(Cur)} :
           /\ Commit(r.s)
           /\ last' = [kind |-> r.kind, err |-> r.err]
           /\ woken' = (r.kind # "pending")
    /\ UNCHANGED <<nIn, hvars, calc, other>>

\* a handler's state with the wakers as they are: under a caller that polls
\* at any time the registered wakers decide nothing
KeepWakers(r) == [r EXCEPT !.s.rdWaker = rdWaker, !.s.wrWaker = wrWaker]

\* poll_next called at any time, woken or not
PollAnyTime ==
    /\ last.kind # "panic"
    /\ \E r \in {KeepWakers(poll_next(Cur))} :
           /\ Commit(r.s)
           /\ last' = [kind |-> r.kind, err |-> r.err]
    /\ UNCHANGED <<woken, nIn, hvars, calc, other>>

\* the events the caller sends
SentEvents == {Event_new(864026796, <<>>)}

NumSent == (next_txid - FIRST_TXID) \div TXID_INCREMENT

\* The caller feeds one event to the sink: poll_ready, and start_send once
\* that is Ready.
SinkSend ==
    /\ NumSent < MaxSends
    /\ \E ev \in SentEvents, r \in {KeepWakers(Sink_poll_ready(Cur))} :
         \E s \in {IF r.res = "ready" THEN Sink_start_send(r.s, ev) ELSE r.s} :
             Commit(s)
    /\ NotAPoll
    /\ UNCHANGED <<woken, nIn, hvars, calc, other>>

\* The caller flushes the sink.
SinkFlush ==
    /\ BufLen(Cur) > 0
    /\ \E r \in {KeepWakers(Sink_poll_flush(Cur))} : Commit(r.s)
    /\ NotAPoll
    /\ UNCHANGED <<woken, nIn, hvars, calc, other>>

\* txids the peer gives its events
PeerTxids == {5, 512}
PeerEvents == {Event_new(813695149, <<1, 2, 3>>)}

\* what the peer may put on the wire: events, an Event packet with a payload
\* of 11 bytes, an ACK, a transport read error
PeerEventFrames ==
    {FrameItem(to_buf(EventPacket(tx, ev))) : tx \in PeerTxids, ev \in PeerEvents}
ShortEventFrame ==
    FrameItem(to_buf(CloudProtoPacket(Magic_TS, TsKindToU8(TsKind_Event),
                                      Version_Normal,
                                      to_be_bytes(5, HDR_TXID_SIZE) \o <<0, 0, 1>>)))
PeerAckFrame == FrameItem(to_buf(AckPacket(FIRST_TXID)))
PeerItems == PeerEventFrames \cup {ShortEventFrame, PeerAckFrame, IoErrItem}

\* an item arrives at the read half, which wakes the task waiting for it; the
\* peer writes its next item once the session has taken the one before
Arrive(it) ==
    /\ inq' = Append(inq, it)
    /\ woken' = (woken \/ rdWaker)
    /\ rdWaker' = FALSE

PeerSend ==
    /\ ~inClosed
    /\ nIn < MaxInbound
    /\ inq = <<>>
    /\ nIn' = nIn + 1
    /\ \E it \in PeerItems : Arrive(it)
    /\ NotAPoll
    /\ UNCHANGED <<next_txid, unacked_txid, unacked_event, inClosed, outLog, wrote,
                   cap, peerRead, outFail, wrWaker, recvLog, ghost_txid, delivered,
                   hvars, xvars>>

PeerClose ==
    /\ ~inClosed
    /\ inClosed' = TRUE
    /\ woken' = (woken \/ rdWaker)
    /\ rdWaker' = FALSE
    /\ NotAPoll
    /\ UNCHANGED <<next_txid, unacked_txid, unacked_event, inq, outLog, wrote,
                   cap, peerRead, outFail, wrWaker, nIn, recvLog, ghost_txid,
                   delivered, hvars, xvars>>

\* the peer reads what the transport holds, which wakes a waiting writer
PeerRead ==
    /\ wrote > peerRead
    /\ peerRead' = wrote
    /\ woken' = (woken \/ wrWaker)
    /\ wrWaker' = FALSE
    /\ NotAPoll
    /\ UNCHANGED <<next_txid, unacked_txid, unacked_event, inq, inClosed, outLog,
                   wrote, cap, outFail, rdWaker, nIn, recvLog, ghost_txid,
                   delivered, hvars, xvars>>

\* the transport breaks while the session has something to write: the next
\* write to it fails
TransportFail ==
    /\ ~outFail
    /\ BufLen(Cur) > 0 \/ unacked_txid # None
    /\ outFail' = TRUE
    /\ woken' = (woken \/ wrWaker)
    /\ wrWaker' = FALSE
    /\ NotAPoll
    /\ UNCHANGED <<next_txid, unacked_txid, unacked_event, inq, inClosed, outLog,
                   wrote, cap, peerRead, rdWaker, nIn, recvLog, ghost_txid,
                   delivered, hvars, xvars>>

Init ==
    /\ \E c \in Caps : SessionInit(c)
    /\ HandshakeIdle
    /\ OthersIdle

Next ==
    \/ PollAnyTime
    \/ SinkSend
    \/ SinkFlush
    \/ PeerSend
    \/ PeerClose
    \/ PeerRead
    \/ TransportFail

Spec == Init /\ [][Next]_vars

(***************************************************************************)
(* Properties of the session                                               *)
(***************************************************************************)
\* the txids of the Ack packets, and of the Event packets, passed to the write
\* half so far, in order
AckTxids ==
    LET acks == SelectSeq(outLog, IsAckFrame)
    IN  [i \in 1..Len(acks) |-> FrameTxid(acks[i])]
SentEventTxids ==
    LET evs == SelectSeq(outLog, IsEventFrame)
    IN  [i \in 1..Len(evs) |-> FrameTxid(evs[i])]

\* the txids of the Event packets taken from the read half whose payload holds
\* an event, in order
IsTxid(x) == x >= 0
WellFormedRecvTxids == SelectSeq(recvLog, IsTxid)

DeliveredTxids == [i \in 1..Len(delivered) |-> delivered[i].txid]

\* C1: every event poll_next has returned was preceded by the start_send of an
\* Ack packet with the txid of the event's packet: when the k-th event was
\* returned at least k Acks had been passed to the write half, and the k-th of
\* them carries the txid of the k-th returned event.
C1_AckStartedBeforeDelivery ==
    \A acks \in {AckTxids} :
        \A k \in 1..Len(delivered) :
            /\ delivered[k].nAcks >= k
            /\ Len(acks) >= k
            /\ acks[k] = delivered[k].txid

\* an event has just been returned while the bytes of its Ack are still in the
\* write buffer: the flush after start_send was Pending or failed, and a later
\* poll returned the event
C1_Witness ==
    /\ last.kind = "event"
    /\ NumSent = 0
    /\ BufLen(Cur) > 0

\* C2 (as amended): the Acks passed to the write half, followed by the txid
\* still waiting to be acknowledged if there is one, are exactly the txids of
\* the Event packets received with a payload of at least 12 bytes, in the
\* order of their reception; so when an event is returned the two agree in
\* number, in txid and in order.
C2_AcksMatchWellFormedEvents ==
    \A acks \in {AckTxids} :
        /\ acks \o unacked_txid = WellFormedRecvTxids
        /\ last.kind = "event" =>
               /\ unacked_txid = None
               /\ Len(acks) = Len(WellFormedRecvTxids)
               /\ DeliveredTxids = acks

\* two events with different txids were received, acknowledged and returned
C2_Witness ==
    /\ last.kind = "event"
    /\ Len(delivered) = 2
    /\ AckTxids = <<512, 5>>

\* C2 as stated: when an event is returned, the Acks sent are as many as the
\* Event packets received and carry their txids in order.
C2_AcksMatchAllEventPackets ==
    last.kind = "event" =>
        /\ Len(AckTxids) = Len(recvLog)
        /\ AckTxids = recvLog

\* C5: the k-th Event packet passed to the write half carries the txid
\* 0x200 + 0x100 * (k - 1), whatever was received in between.
C5_OutboundTxids ==
    \A txids \in {SentEventTxids} :
        \A k \in 1..Len(txids) : txids[k] = 512 + 256 * (k - 1)

\* two events were sent with an event received and acknowledged in between
C5_Witness ==
    /\ Len(SentEventTxids) = 2
    /\ Len(outLog) = 3
    /\ IsAckFrame(outLog[2])
    /\ Len(delivered) = 1

(***************************************************************************)
(* Receive-only scenarios: the caller only polls the stream, re-polling    *)
(* when woken; the peer sends NEvents events                               *)
(***************************************************************************)
\* the size of an Ack packet on the wire
AckFrameLen == Len(to_buf(AckPacket(FIRST_TXID)))

ReceiveOnlyInit ==
    /\ \E c \in 1..MaxPipe : SessionInit(c)
    /\ HandshakeIdle
    /\ OthersIdle

\* the peer puts its next event on the wire
PeerEventArrives ==
    /\ nIn < NEvents
    /\ nIn' = nIn + 1
    /\ \E it \in PeerEventFrames : Arrive(it)
    /\ NotAPoll
    /\ UNCHANGED <<next_txid, unacked_txid, unacked_event, inClosed, outLog, wrote,
                   cap, peerRead, outFail, wrWaker, recvLog, ghost_txid, delivered,
                   hvars, xvars>>

\* a peer that sends its events and never reads the Acks
PeerSendNoRead == PeerEventArrives

\* a peer that sends its next event once it has read the Acks of those before
PeerSendNext ==
    /\ peerRead >= AckFrameLen * nIn
    /\ PeerEventArrives

NextNoRead ==
    \/ PollNext
    \/ PeerSendNoRead

SpecNoRead ==
    /\ ReceiveOnlyInit
    /\ [][NextNoRead]_vars
    /\ WF_vars(PollNext)
    /\ WF_vars(PeerSendNoRead)

NextLockstep ==
    \/ PollNext
    \/ PeerSendNext
    \/ PeerRead

SpecLockstep ==
    /\ ReceiveOnlyInit
    /\ [][NextLockstep]_vars
    /\ WF_vars(PollNext)
    /\ WF_vars(PeerSendNext)
    /\ WF_vars(PeerRead)

\* C3: under a peer that never reads the Acks the receive-only session does
\* not stop before it has returned all NEvents events: in every state either
\* all of them have been returned or a step (a poll of the woken task, an
\* event of the peer) is still possible.
C3_NoDeadlockWithoutReader ==
    Len(delivered) = NEvents \/ ENABLED NextNoRead

\* C4: under a lockstep peer, a transport whose bytes are eventually read and
\* fair wake-ups, a poll_next that returns Pending with no event queued has
\* flushed the write buffer as far as the transport takes it, and in the end
\* every event of the peer has been returned and every Ack that was started
\* has been written to the transport in full.
C4_FlushOnInboundPending ==
    /\ [](last.kind = "pending" /\ unacked_event = None
              => BufLen(Cur) = 0 \/ Avail(Cur) = 0)
    /\ <>[](/\ Len(delivered) = NEvents
            /\ Len(SelectSeq(outLog, IsAckFrame)) = NEvents
            /\ BufLen(Cur) = 0)

\* all events were returned through a pipe smaller than one Ack, whose bytes
\* left in the flushes of the Pending arm
C4_Witness ==
    /\ cap < AckFrameLen
    /\ last.kind = "pending"
    /\ unacked_event = None
    /\ Len(delivered) = NEvents
    /\ wrote = AckFrameLen * NEvents

(***************************************************************************)
(* TS handshake (services/ts/socket.rs connect, services/ts/acceptor.rs)   *)
(***************************************************************************)
\* the end of the items of a read half: the peer has closed
CloseItem == [t |-> "close", bytes |-> <<>>]

Error(kind, a, b) == [kind |-> kind, a |-> a, b |-> b]

\* what a handshake call ends with
HsFail(err) == [pc |-> "failed", err |-> err, log |-> "", info |-> NoInfo]
HsOk(pc, log, info) == [pc |-> pc, err |-> NoErr, log |-> log, info |-> info]

\* io.next().await on the item at the head of the read half
HsNext(it) ==
    IF it.t = "close" THEN [res |-> "none", pkt |-> NoPkt, err |-> NoErr]
    ELSE DecodeItem(it)

\* (mutant) aid and bootid are written in the other order
ConnectPayload_AidAfterBootid(info) ==
    info.cid \o info.unk0 \o info.bootid \o info.aid \o info.pt

\* connect: the payload of the Connect packet
ConnectPayload(info) ==
    info.cid \o info.unk0 \o info.aid \o info.bootid \o info.pt

\* connect: the Connect packet
ConnectPacket(info) ==
    CloudProtoPacket(Magic_TS, TsKindToU8(TsKind_Connect), Version_Connect,
                     ConnectPayload(info))

\* connect: what is logged about the payload of an accepted reply
connect_log(info, payload) ==
    IF Len(payload) # CONNECT_REPLY_LEN THEN "unexpected size"
    ELSE IF payload[1] = AgentIdStatus_Unchanged
    THEN IF info.aid # payload THEN "unchanged, different aid" ELSE "unchanged"
    ELSE IF payload[1] = AgentIdStatus_Changed
    THEN IF info.aid = payload THEN "changed, same aid" ELSE "changed"
    ELSE "unexpected status"

\* (mutant) a reply whose payload is not 17 bytes long is refused
connect_check_StrictSize(info, reply) ==
    IF reply.magic # Magic_TS
    THEN HsFail(Error("BadMagic", MagicToU8(reply.magic), MagicToU8(Magic_TS)))
    ELSE IF ~KindIs(reply.kind, TsKind_ConnectionEstablished)
    THEN HsFail(Error("WrongConnectionPacketKind", reply.kind,
                      TsKindToU8(TsKind_ConnectionEstablished)))
    ELSE IF reply.version # Version_Normal
    THEN HsFail(Error("BadVersion", VersionToU16(reply.version),
                      VersionToU16(Version_Normal)))
    ELSE IF Len(reply.payload) # CONNECT_REPLY_LEN
    THEN HsFail(Error("PayloadInvalidSize", Len(reply.payload), CONNECT_REPLY_LEN))
    ELSE HsOk("session", connect_log(info, reply.payload), info)

\* connect: the checks of the reply packet
connect_check(info, reply) ==
    IF reply.magic # Magic_TS
    THEN HsFail(Error("BadMagic", MagicToU8(reply.magic), MagicToU8(Magic_TS)))
    ELSE IF ~KindIs(reply.kind, TsKind_ConnectionEstablished)
    THEN HsFail(Error("WrongConnectionPacketKind", reply.kind,
                      TsKindToU8(TsKind_ConnectionEstablished)))
    ELSE IF reply.version # Version_Normal
    THEN HsFail(Error("BadVersion", VersionToU16(reply.version),
                      VersionToU16(Version_Normal)))
    ELSE HsOk("session", connect_log(info, reply.payload), info)

\* (mutant) a close or an error item is passed over and the next item awaited
connect_reply_SkipBadItem(info, it) ==
    Only({ IF r.res # "pkt" THEN HsOk("await", "", info)
           ELSE connect_check(info, r.pkt) :
           r \in {HsNext(it)} })

\* connect from `io.next().await` on: the outcome for the item read
connect_reply(info, it) ==
    Only({ IF r.res = "none" THEN HsFail(Error("ClosedByPeer", 0, 0))
           ELSE IF r.res = "err" THEN HsFail(r.err)
           ELSE connect_check(info, r.pkt) :
           r \in {HsNext(it)} })

\* Read::read_exact on the payload's reader: n bytes, and the reader after
read_exact(rd, n) ==
    IF Len(rd) < n THEN [ok |-> FALSE, out |-> <<>>, rd |-> rd]
    ELSE [ok |-> TRUE, out |-> SubSeq(rd, 1, n), rd |-> SubSeq(rd, n + 1, Len(rd))]

RECURSIVE read_fields(_, _)
\* successive read_exact calls on one reader, for fields of the given sizes
read_fields(rd, sizes) ==
    IF sizes = <<>> THEN [ok |-> TRUE, outs |-> <<>>]
    ELSE Only({ IF ~r.ok THEN [ok |-> FALSE, outs |-> <<>>]
                ELSE Only({ [ok |-> rest.ok, outs |-> <<r.out>> \o rest.outs] :
                            rest \in {read_fields(r.rd, Tail(sizes))} }) :
                r \in {read_exact(rd, Head(sizes))} })

\* the sizes of cid, unk0, aid, bootid, pt
ConnectInfoSizes == <<16, 16, 16, 16, 8>>

\* listen: the TsConnectInfo read from the payload, field by field
listen_parse(payload) ==
    Only({ IF ~f.ok THEN HsFail(IoErr)
           ELSE HsOk("acceptor", "",
                     TsConnectInfo(f.outs[1], f.outs[2], f.outs[3], f.outs[4],
                                   f.outs[5])) :
           f \in {read_fields(payload, ConnectInfoSizes)} })

\* (mutant) the kind is checked before the magic
listen_check_KindFirst(pkt) ==
    IF ~KindIs(pkt.kind, TsKind_Connect)
    THEN HsFail(Error("WrongConnectionPacketKind", pkt.kind,
                      TsKindToU8(TsKind_Connect)))
    ELSE IF pkt.magic # Magic_TS
    THEN HsFail(Error("BadMagic", MagicToU8(pkt.magic), MagicToU8(Magic_TS)))
    ELSE IF pkt.version # Version_Connect
    THEN HsFail(Error("BadVersion", VersionToU16(pkt.version),
                      VersionToU16(Version_Connect)))
    ELSE IF Len(pkt.payload) # CONNECT_PAYLOAD_LEN
    THEN HsFail(Error("PayloadInvalidSize", Len(pkt.payload), CONNECT_PAYLOAD_LEN))
    ELSE listen_parse(pkt.payload)

\* listen: the checks of the first packet, then the parse
listen_check(pkt) ==
    IF pkt.magic # Magic_TS
    THEN HsFail(Error("BadMagic", MagicToU8(pkt.magic), MagicToU8(Magic_TS)))
    ELSE IF ~KindIs(pkt.kind, TsKind_Connect)
    THEN HsFail(Error("WrongConnectionPacketKind", pkt.kind,
                      TsKindToU8(TsKind_Connect)))
    ELSE IF pkt.version # Version_Connect
    THEN HsFail(Error("BadVersion", VersionToU16(pkt.version),
                      VersionToU16(Version_Connect)))
    ELSE IF Len(pkt.payload) # CONNECT_PAYLOAD_LEN
    THEN HsFail(Error("PayloadInvalidSize", Len(pkt.payload), CONNECT_PAYLOAD_LEN))
    ELSE listen_parse(pkt.payload)

\* listen: the outcome for the item read
listen(it) ==
    Only({ IF r.res = "none" THEN HsFail(Error("ClosedByPeer", 0, 0))
           ELSE IF r.res = "err" THEN HsFail(r.err)
           ELSE listen_check(r.pkt) :
           r \in {HsNext(it)} })

\* accept: the ConnectionEstablished packet
AcceptPacket(reply) ==
    CloudProtoPacket(Magic_TS, TsKindToU8(TsKind_ConnectionEstablished),
                     Version_Normal, <<reply.agent_id_status>> \o reply.aid)

\* what a handshake call does first when it starts by sending: the frames it
\* puts on the wire and where it stands then (ok: the transport takes them)
HsSent(pc, frames, err) == [pc |-> pc, out |-> frames, err |-> err]

\* (mutant) connect awaits the reply without having sent Connect
connect_send_AwaitFirst(info, ok) == HsSent("await", <<>>, NoErr)

\* connect up to `io.send(pkt).await?`
connect_send(info, ok) ==
    IF ok THEN HsSent("await", <<FrameItem(to_buf(ConnectPacket(info)))>>, NoErr)
    ELSE HsSent("failed", <<>>, IoErr)

\* accept: the send, and the session made of the acceptor's socket
accept(reply, ok) ==
    IF ok THEN HsSent("session", <<FrameItem(to_buf(AcceptPacket(reply)))>>, NoErr)
    ELSE HsSent("accept_failed", <<>>, IoErr)

(***************************************************************************)
(* The handshake as a state machine: a client and a server over a reliable *)
(* transport, or one of them facing a rogue peer                           *)
(***************************************************************************)
\* a field of n bytes: all zeroes, or n different bytes from base + 1 on
FieldPatterns(n, base) == {Fill(n, 0), [i \in 1..n |-> base + i]}

ConnectInfos ==
    {TsConnectInfo(cid, unk0, aid, bootid, pt) :
        cid \in FieldPatterns(16, 0), unk0 \in FieldPatterns(16, 16),
        aid \in FieldPatterns(16, 32), bootid \in FieldPatterns(16, 48),
        pt \in FieldPatterns(8, 64)}

\* the info whose bytes are all different
RampInfo ==
    TsConnectInfo([i \in 1..16 |-> i], [i \in 1..16 |-> 16 + i],
                  [i \in 1..16 |-> 32 + i], [i \in 1..16 |-> 48 + i],
                  [i \in 1..8 |-> 64 + i])

ConnectResponses ==
    {TsConnectResponse(st, aid) :
        st \in {AgentIdStatus_Unchanged, AgentIdStatus_Changed},
        aid \in FieldPatterns(16, 32)}

\* a frame too short to hold a packet header
ShortFrame == FrameItem(<<143, 1, 0>>)

\* what a rogue client sends: every combination of a right or wrong magic,
\* kind and version, a payload of the wrong size, a frame that is no packet,
\* a transport error, a close
RogueClientItems ==
    {FrameItem(to_buf(CloudProtoPacket(m, k, v, pl))) :
        m \in {Magic_TS, Magic_LFO},
        k \in {TsKindToU8(TsKind_Connect), TsKindToU8(TsKind_Event)},
        v \in {Version_Connect, Version_Normal},
        pl \in {ConnectPayload(RampInfo), Fill(CONNECT_PAYLOAD_LEN - 1, 7),
                Fill(CONNECT_PAYLOAD_LEN + 16, 7)}}
    \cup {ShortFrame, IoErrItem, CloseItem}

\* what a rogue server sends: every combination of a right or wrong magic,
\* kind and version, with payloads of 17 bytes (status 1, 2, 3) and of other
\* sizes, a frame that is no packet, a transport error, a close
RogueServerItems ==
    {FrameItem(to_buf(CloudProtoPacket(m, k, v, pl))) :
        m \in {Magic_TS, Magic_LFO},
        k \in {TsKindToU8(TsKind_ConnectionEstablished), TsKindToU8(TsKind_Ack)},
        v \in {Version_Normal, Version_Connect},
        pl \in {<<AgentIdStatus_Unchanged>> \o RampInfo.aid,
                <<AgentIdStatus_Changed + 1>> \o RampInfo.aid,
                <<>>}}
    \cup {ShortFrame, IoErrItem, CloseItem}

\* the infos of a client that faces a rogue server
RogueServerInfos == {RampInfo, TsConnectInfo(Fill(16, 0), Fill(16, 0), Fill(16, 0),
                                              Fill(16, 0), Fill(8, 0))}

HandshakeInit ==
    /\ SessionInit(MaxCap)
    /\ OthersIdle
    /\ c2s = <<>>
    /\ s2c = <<>>
    /\ \/ \E info \in ConnectInfos :
              /\ hs_c = HsTask("start", info)
              /\ hs_s = HsTask("listen", NoInfo)
       \/ \E info \in RogueServerInfos :
              /\ hs_c = HsTask("start", info)
              /\ hs_s = HsTask("off", NoInfo)
       \/ /\ hs_c = HsTask("off", NoInfo)
          /\ hs_s = HsTask("listen", NoInfo)

\* the transport may fail a write only when the peer is a rogue one
SendOutcomes(peer) == IF peer.pc = "off" THEN BOOLEAN ELSE {TRUE}

\* connect, up to the end of its send
ClientSendConnect ==
    /\ hs_c.pc = "start"
    /\ \E ok \in SendOutcomes(hs_s) :
         \E r \in {connect_send(hs_c.info, ok)} :
             /\ hs_c' = [hs_c EXCEPT !.pc = r.pc, !.err = r.err,
                                     !.sent = (r.out # <<>>)]
             /\ c2s' = c2s \o r.out
    /\ UNCHANGED <<hs_s, s2c, svars, xvars>>

\* the task takes the item at the head of its read half (a close stays)
TakeItem(task, q) ==
    [task EXCEPT !.nread = @ + 1, !.first = IF task.nread = 0 THEN Head(q) ELSE @]
AfterItem(q) == IF Head(q) = CloseItem THEN q ELSE Tail(q)

\* connect, from the arrival of an item to its return
ClientRecvReply ==
    /\ hs_c.pc = "await"
    /\ s2c # <<>>
    /\ \E r \in {connect_reply(hs_c.info, Head(s2c))} :
           hs_c' = [TakeItem(hs_c, s2c) EXCEPT !.pc = r.pc, !.err = r.err,
                                               !.log = r.log]
    /\ s2c' = AfterItem(s2c)
    /\ UNCHANGED <<hs_s, c2s, svars, xvars>>

\* listen, from the arrival of an item to its return
ServerListen ==
    /\ hs_s.pc = "listen"
    /\ c2s # <<>>
    /\ \E r \in {listen(Head(c2s))} :
           hs_s' = [TakeItem(hs_s, c2s) EXCEPT !.pc = r.pc, !.err = r.err,
                                               !.info = r.info]
    /\ c2s' = AfterItem(c2s)
    /\ UNCHANGED <<hs_c, s2c, svars, xvars>>

\* accept, called on the acceptor with a response
ServerAccept ==
    /\ hs_s.pc = "acceptor"
    /\ \E reply \in ConnectResponses, ok \in SendOutcomes(hs_c) :
         \E r \in {accept(reply, ok)} :
             /\ hs_s' = [hs_s EXCEPT !.pc = r.pc, !.err = r.err,
                                     !.sent = (r.out # <<>>)]
             /\ s2c' = s2c \o r.out
    /\ UNCHANGED <<hs_c, c2s, svars, xvars>>

\* a rogue peer may send as long as the task has taken nothing and its own
\* side is open
RogueMaySend(task, q) ==
    /\ task.pc # "off"
    /\ task.nread = 0
    /\ Len(q) < MaxInject
    /\ IF q = <<>> THEN TRUE ELSE q[Len(q)] # CloseItem

RogueClientSends ==
    /\ hs_c.pc = "off"
    /\ RogueMaySend(hs_s, c2s)
    /\ \E it \in RogueClientItems : c2s' = Append(c2s, it)
    /\ UNCHANGED <<hs_c, hs_s, s2c, svars, xvars>>

RogueServerSends ==
    /\ hs_s.pc = "off"
    /\ RogueMaySend(hs_c, s2c)
    /\ \E it \in RogueServerItems : s2c' = Append(s2c, it)
    /\ UNCHANGED <<hs_c, hs_s, c2s, svars, xvars>>

NextHandshake ==
    \/ ClientSendConnect
    \/ ClientRecvReply
    \/ ServerListen
    \/ ServerAccept
    \/ RogueClientSends
    \/ RogueServerSends

\* each call runs on once it can: its task is polled when its item arrives
SpecHandshake ==
    /\ HandshakeInit
    /\ [][NextHandshake]_vars
    /\ WF_vars(ClientSendConnect)
    /\ WF_vars(ClientRecvReply)
    /\ WF_vars(ServerListen)
    /\ WF_vars(ServerAccept)

(***************************************************************************)
(* Properties of the handshake                                             *)
(***************************************************************************)
\* the header fields of a frame of at least COMMON_HDR_LEN bytes, as bytes
FrameMagic(b) == b[1]
FrameKind(b) == b[2]
FrameVersion(b) == from_be_bytes(SubSeq(b, 3, 4))
FramePayloadLen(b) == Len(b) - COMMON_HDR_LEN

\* a frame that holds a packet: a whole header, and the length it announces
IsPacketFrame(it) ==
    /\ it.t = "frame"
    /\ Len(it.bytes) >= COMMON_HDR_LEN
    /\ from_be_bytes(SubSeq(it.bytes, 5, 8)) = Len(it.bytes)

\* a Connect packet that passes the four checks of listen
IsValidConnect(it) ==
    /\ IsPacketFrame(it)
    /\ FrameMagic(it.bytes) = 143
    /\ FrameKind(it.bytes) = 1
    /\ FrameVersion(it.bytes) = 2
    /\ FramePayloadLen(it.bytes) = CONNECT_PAYLOAD_LEN

\* a client and a server that share a reliable transport
BothRunning == hs_c.pc # "off" /\ hs_s.pc # "off"

\* C6: the client awaits (or has read) an inbound packet only after it has
\* sent Connect; the server has sent ConnectionEstablished only after it has
\* taken one packet, a valid Connect; and a client and a server on a reliable
\* transport both end with a session.
C6_HandshakeOrderAndCompletion ==
    /\ [](hs_c.pc = "await" \/ hs_c.nread > 0 => hs_c.sent)
    /\ [](BothRunning /\ hs_c.pc = "await" /\ hs_s.nread = 0
              => c2s # <<>> /\ IsValidConnect(c2s[1]))
    /\ [](hs_s.sent => hs_s.nread = 1 /\ IsValidConnect(hs_s.first))
    /\ (BothRunning ~> (hs_c.pc = "session" /\ hs_s.pc = "session"))

\* both calls have returned a session
C6_Witness ==
    /\ BothRunning
    /\ hs_c.pc = "session"
    /\ hs_s.pc = "session"
    /\ hs_c.nread = 1
    /\ hs_s.nread = 1

\* C7 (as amended): the payload connect writes is 72 bytes long, and listen
\* parses it into a TsConnectInfo equal to the client's.
C7_ConnectInfoRoundTrip ==
    hs_c.pc # "off" =>
        /\ \A i \in 1..Len(c2s) :
               FramePayloadLen(c2s[i].bytes) = 72
        /\ hs_s.nread > 0 =>
               /\ hs_s.pc \in {"acceptor", "session"}
               /\ hs_s.info = hs_c.info
               /\ FramePayloadLen(hs_s.first.bytes) = 72

\* the server holds the info of a client whose 72 bytes are all different
C7_Witness ==
    /\ hs_c.info = RampInfo
    /\ hs_s.pc = "acceptor"
    /\ hs_s.info = RampInfo

\* C7 as stated: the payload connect writes is 88 bytes long, and listen
\* parses it into a TsConnectInfo equal to the client's.
C7_RoundTripOf88Bytes ==
    hs_c.pc # "off" =>
        /\ \A i \in 1..Len(c2s) : FramePayloadLen(c2s[i].bytes) = 88
        /\ hs_s.nread > 0 =>
               /\ hs_s.pc \in {"acceptor", "session"}
               /\ hs_s.info = hs_c.info
               /\ FramePayloadLen(hs_s.first.bytes) = 88

\* the outcome of listen on a first packet, by the first check that fails,
\* for an expected payload length of n bytes
ListenOutcomeIs(b, n) ==
    IF FrameMagic(b) # 143
    THEN hs_s.pc = "failed" /\ hs_s.err = Error("BadMagic", FrameMagic(b), 143)
    ELSE IF FrameKind(b) # 1
    THEN /\ hs_s.pc = "failed"
         /\ hs_s.err = Error("WrongConnectionPacketKind", FrameKind(b), 1)
    ELSE IF FrameVersion(b) # 2
    THEN hs_s.pc = "failed" /\ hs_s.err = Error("BadVersion", FrameVersion(b), 2)
    ELSE IF FramePayloadLen(b) # n
    THEN /\ hs_s.pc = "failed"
         /\ hs_s.err = Error("PayloadInvalidSize", FramePayloadLen(b), n)
    ELSE hs_s.pc \in {"acceptor", "session", "accept_failed"}

\* C8 (as amended): listen checks magic == TS, kind == Connect, version ==
\* Connect, payload length == 72 in this order, fails with the error of the
\* first check that does not hold, and returns an acceptor only when all
\* four hold.
C8_ListenValidationOrder ==
    hs_s.nread > 0 /\ IsPacketFrame(hs_s.first) =>
        ListenOutcomeIs(hs_s.first.bytes, 72)

\* a packet with a wrong magic and a wrong kind was refused for its magic
C8_Witness ==
    /\ hs_s.nread = 1
    /\ IsPacketFrame(hs_s.first)
    /\ FrameMagic(hs_s.first.bytes) # 143
    /\ FrameKind(hs_s.first.bytes) # 1
    /\ hs_s.err.kind = "BadMagic"

\* C8 as stated: the fourth check is payload length == 88.
C8_ListenExpects88Bytes ==
    hs_s.nread > 0 /\ IsPacketFrame(hs_s.first) =>
        ListenOutcomeIs(hs_s.first.bytes, 88)

\* C9: connect returns a session exactly when the first packet has magic TS,
\* kind ConnectionEstablished and version Normal, and else fails with the
\* error of the first of these checks that does not hold; the payload of the
\* reply (its length, its status byte, its aid) decides nothing.
C9_ConnectValidation ==
    hs_c.nread > 0 /\ IsPacketFrame(hs_c.first) =>
        \E b \in {hs_c.first.bytes} :
            IF FrameMagic(b) # 143
            THEN /\ hs_c.pc = "failed"
                 /\ hs_c.err = Error("BadMagic", FrameMagic(b), 143)
            ELSE IF FrameKind(b) # 2
            THEN /\ hs_c.pc = "failed"
                 /\ hs_c.err = Error("WrongConnectionPacketKind", FrameKind(b), 2)
            ELSE IF FrameVersion(b) # 1
            THEN /\ hs_c.pc = "failed"
                 /\ hs_c.err = Error("BadVersion", FrameVersion(b), 1)
            ELSE hs_c.pc = "session"

\* connect returned a session on a reply whose payload is not 17 bytes long
C9_Witness ==
    /\ hs_c.pc = "session"
    /\ hs_c.nread = 1
    /\ FramePayloadLen(hs_c.first.bytes) # 17
    /\ hs_c.log = "unexpected size"

\* what the read half gives for an item that is no packet
ReadFailure(it) ==
    IF it = CloseItem THEN Error("ClosedByPeer", 0, 0) ELSE IoErr

\* C10: connect and listen take at most one item from the framed socket; if
\* it is an error item the call fails with that error, if it is the close of
\* the peer the call fails with ClosedByPeer, and in both cases nothing is
\* returned and what follows on the wire is left unread.
C10_HandshakeReadFailure ==
    /\ hs_c.nread <= 1
    /\ hs_s.nread <= 1
    /\ hs_c.nread = 1 /\ ~IsPacketFrame(hs_c.first) =>
           hs_c.pc = "failed" /\ hs_c.err = ReadFailure(hs_c.first)
    /\ hs_s.nread = 1 /\ ~IsPacketFrame(hs_s.first) =>
           hs_s.pc = "failed" /\ hs_s.err = ReadFailure(hs_s.first)

\* connect failed on a transport error and left the next item unread
C10_Witness ==
    /\ hs_c.pc = "failed"
    /\ hs_c.first = IoErrItem
    /\ hs_c.err = IoErr
    /\ s2c # <<>>

(***************************************************************************)
(* One direction of a pair of framed sockets as a state machine            *)
(***************************************************************************)
\* the capacities of the link's transport: one that splits every frame, one
\* that holds whole frames
LinkCaps == {3, 16}

\* the packets a CloudProtoSocket writes to the link: without payload, of
\* exactly max_frame_length bytes, of one byte more
SmallPacket == CloudProtoPacket(Magic_TS, 0, Version_Normal, <<>>)
FullPacket ==
    CloudProtoPacket(Magic_Other(255), 115, Version_Other(4329),
                     Fill(MaxFrameLength - COMMON_HDR_LEN, 105))
BigPacket ==
    CloudProtoPacket(Magic_LFO, 2, Version_Connect,
                     Fill(MaxFrameLength - COMMON_HDR_LEN + 1, 42))
LinkPackets == {SmallPacket, FullPacket, BigPacket}

\* what another program writes: a well-formed frame, heads that announce 3,
\* 0 and max_frame_length + 1 bytes, the first 3 bytes of a head
HeadOf(n) == <<143, 3, 0, 1>> \o to_be_bytes(n, LENGTH_FIELD_LEN)
RawChunks ==
    {to_buf(SmallPacket), HeadOf(3), HeadOf(0), HeadOf(MaxFrameLength + 1),
     <<143, 3, 0>>}

LinkInit ==
    /\ SessionInit(MaxCap)
    /\ HandshakeIdle
    /\ calc = Off
    /\ other = Off
    /\ \E c \in LinkCaps, w \in {"crate", "raw"} : link = LinkNew(c, w, MaxFrameLength)

LinkOnly == UNCHANGED <<svars, hvars, calc, other>>

\* the writing side feeds a packet to its sink: poll_ready, and start_send
\* once that is Ready
LinkSend ==
    /\ link.writer = "crate"
    /\ ~link.closed
    /\ Len(link.outLog) < MaxLinkSends
    /\ \E pkt \in LinkPackets, r \in {IoPollReady(link)} :
           link' = (IF r.res = "ready"
                    THEN [IoStartSend(r.s, pkt) EXCEPT !.sent = Append(@, pkt)]
                    ELSE r.s)
    /\ LinkOnly

\* another program writes bytes
LinkWriteRaw ==
    /\ link.writer = "raw"
    /\ ~link.closed
    /\ Len(link.outLog) < MaxLinkSends
    /\ \E chunk \in RawChunks : link' = [link EXCEPT !.outLog = Append(@, chunk)]
    /\ LinkOnly

\* the writing side flushes: CloudProtoSocket::poll_flush
LinkFlush ==
    /\ BufLen(link) > 0
    /\ link' = IoPollFlush(link).s
    /\ LinkOnly

\* the writing side closes once its buffer is empty: CloudProtoSocket::poll_close
LinkClose ==
    /\ ~link.closed
    /\ BufLen(link) = 0
    /\ link' = [link EXCEPT !.closed = TRUE]
    /\ LinkOnly

\* the next read of the reading side's transport fails
LinkReadFail ==
    /\ ~link.rdFail
    /\ link.fails < MaxLinkFails
    /\ link' = [link EXCEPT !.rdFail = TRUE, !.fails = @ + 1]
    /\ LinkOnly

\* the reading side polls its stream: CloudProtoSocket::poll_next
LinkPollNext ==
    /\ Len(link.got) < MaxLinkItems
    /\ \E r \in {Link_poll_next(link)} :
           link' = (IF r.item.res = "pending" THEN r.l
                    ELSE [r.l EXCEPT !.got = Append(@, r.item)])
    /\ LinkOnly

NextFraming ==
    \/ LinkSend
    \/ LinkWriteRaw
    \/ LinkFlush
    \/ LinkClose
    \/ LinkReadFail
    \/ LinkPollNext

SpecFraming == LinkInit /\ [][NextFraming]_vars

(***************************************************************************)
(* Properties of the link                                                  *)
(***************************************************************************)
\* the packets the read half has given so far, in order
GotPackets ==
    LET ok == SelectSeq(link.got, LAMBDA it : it.res = "pkt")
    IN  [i \in 1..Len(ok) |-> ok[i].pkt]
GotErrors == Len(SelectSeq(link.got, LAMBDA it : it.res = "err"))

IsPrefix(a, b) == Len(a) <= Len(b) /\ a = SubSeq(b, 1, Len(a))

\* every byte written has gone through the transport and out of the read
\* half's buffer
Drained ==
    /\ BufLen(link) = 0
    /\ link.wrote = link.peerRead
    /\ link.buffer = <<>>

\* the read errors the transport has given so far
ReadErrorsGiven == link.fails - (IF link.rdFail THEN 1 ELSE 0)

\* every packet written fits max_frame_length of the reading side
AllFit == \A i \in 1..Len(link.sent) : Len(to_buf(link.sent[i])) <= link.max_frame_length

\* what the read half has given is what was written, in order, each packet
\* once, with no error item but for the transport's read errors, and all of
\* it once every byte has gone through
FifoLossFree ==
    /\ IsPrefix(GotPackets, link.sent)
    /\ GotErrors = ReadErrorsGiven
    /\ Drained => GotPackets = link.sent

\* C12: within one direction, the packets passed to the write half and
\* flushed come out of the peer's read half as equal packets, in the same
\* order, none duplicated or dropped, provided the encoded length of each is
\* at most the max_frame_length of the reading side
C12_FifoLossFreeWithinMaxFrame ==
    (link.writer = "crate" /\ AllFit) => FifoLossFree

\* two packets, one of exactly max_frame_length bytes, have crossed a
\* transport that splits every frame
C12_Witness ==
    /\ link.writer = "crate"
    /\ link.cap = 3
    /\ Len(link.sent) = 2
    /\ FullPacket \in {link.sent[1], link.sent[2]}
    /\ GotPackets = link.sent
    /\ Drained

\* C12 as stated: for any sequence of packets
C12_FifoLossFreeAnyPackets ==
    link.writer = "crate" => FifoLossFree

\* the chunks that are whole well-formed frames, and the heads that announce
\* fewer bytes than a header has
IsGoodChunk(chunk) == from_buf(chunk).res = "ok" /\ Len(chunk) <= link.max_frame_length
IsShortHead(chunk) == chunk \in {HeadOf(3), HeadOf(0)}
OnlyGoodChunks == \A i \in 1..Len(link.outLog) : IsGoodChunk(link.outLog[i])

\* the read half has nothing more to give until bytes arrive
Quiet ==
    /\ BufLen(link) = 0
    /\ link.wrote = link.peerRead
    /\ ~link.is_readable
    /\ ~link.has_errored

\* each read error of the transport gives one error item, and the item after
\* it is None
OneItemPerReadError ==
    OnlyGoodChunks =>
        /\ GotErrors = ReadErrorsGiven
        /\ \A i \in 1..Len(link.got) - 1 :
               link.got[i].res = "err" => link.got[i + 1].res = "none"

\* None is given after a close or after an error item, and is the last item
\* given once the read half has seen the end of the transport
NoneOnClose ==
    /\ \A i \in 1..Len(link.got) :
           link.got[i].res = "none" =>
               link.closed \/ (i > 1 /\ link.got[i - 1].res = "err")
    /\ (link.eof /\ ~link.is_readable /\ ~link.has_errored) =>
           (link.got # <<>> /\ link.got[Len(link.got)].res = "none")

\* a frame shorter than a header gives an error item and no None after it,
\* and no packet comes out of the bytes that follow it
ShortFrameIsAnErrorItem ==
    (link.writer = "raw" /\ link.fails = 0 /\ link.outLog # <<>>
     /\ IF link.outLog = <<>> THEN FALSE ELSE IsShortHead(link.outLog[1])) =>
        /\ GotPackets = <<>>
        /\ link.got # <<>> => link.got[1].res = "err"
        /\ Len(link.got) >= 2 => link.got[2].res = "err"

SessionMaxFrame == 24
MaxChunks == 3

\* the peer's Event packet, a head that announces more than max_frame_length
\* bytes, a head that announces fewer bytes than a header has
EventChunk == to_buf(EventPacket(5, Event_new(813695149, <<>>)))
TooBigHead == HeadOf(SessionMaxFrame + 1)
TooShortHead == HeadOf(3)
InboundChunks == {EventChunk, TooBigHead, TooShortHead}

InboundInit ==
    /\ SessionInit(MaxCap)
    /\ HandshakeIdle
    /\ calc = Off
    /\ other = Off
    /\ link = LinkNew(MaxPipe, "raw", SessionMaxFrame)

\* the peer writes a chunk to the transport, which wakes the reading task
PeerWritesBytes ==
    /\ Len(link.outLog) < MaxChunks
    /\ \E chunk \in InboundChunks :
           link' = [link EXCEPT !.outLog = Append(@, chunk), !.wrote = @ + Len(chunk)]
    /\ woken' = (woken \/ rdWaker)
    /\ rdWaker' = FALSE
    /\ NotAPoll
    /\ UNCHANGED <<next_txid, unacked_txid, unacked_event, inq, inClosed, outLog,
                   wrote, cap, peerRead, outFail, wrWaker, nIn, recvLog, ghost_txid,
                   delivered, hvars, calc, other>>

\* the transport's next read fails, which wakes the reading task
InboundReadFail ==
    /\ ~link.rdFail
    /\ link.fails < MaxLinkFails
    /\ link' = [link EXCEPT !.rdFail = TRUE, !.fails = @ + 1]
    /\ woken' = (woken \/ rdWaker)
    /\ rdWaker' = FALSE
    /\ NotAPoll
    /\ UNCHANGED <<next_txid, unacked_txid, unacked_event, inq, inClosed, outLog,
                   wrote, cap, peerRead, outFail, wrWaker, nIn, recvLog, ghost_txid,
                   delivered, hvars, calc, other>>

NextInbound ==
    \/ PollNext
    \/ SinkSend
    \/ PeerWritesBytes
    \/ InboundReadFail
    \/ PeerRead

\* the reading task polls when it is scheduled, the peer reads the Acks
SpecInbound ==
    /\ InboundInit
    /\ [][NextInbound]_vars
    /\ WF_vars(PollNext)
    /\ WF_vars(PeerRead)

\* the chunks that leave the read half out of step with the peer's packets
IsBadHead(chunk) == chunk \in {TooBigHead, TooShortHead}

\* the Event packets the peer has written, and those of them written before
\* any bad head
NumEventChunks(chunks) == Len(SelectSeq(chunks, LAMBDA c : c = EventChunk))
RECURSIVE EventsBeforeBadHead(_)
EventsBeforeBadHead(chunks) ==
    IF chunks = <<>> THEN 0
    ELSE IF IsBadHead(Head(chunks)) THEN 0
    ELSE 1 + EventsBeforeBadHead(Tail(chunks))

\* a step in which the read half has given an error item
InboundErrorPoll ==
    /\ Len(link'.got) > Len(link.got)
    /\ link'.got[Len(link'.got)].res = "err"

\* the poll that meets an inbound error returns it and leaves the session's
\* fields as they were
ErrorPollKeepsSession ==
    [][InboundErrorPoll =>
           /\ last'.kind = "err"
           /\ next_txid' = next_txid
           /\ unacked_txid' = unacked_txid
           /\ unacked_event' = unacked_event]_vars

\* the reading task waits for inbound bytes: its last poll_next found the
\* read half Pending, and nothing has arrived since
WaitsForInbound == ~woken /\ rdWaker

MaxPayloadLen == 2
MaxFrameBytes == 10

\* from_buf in a given build: where the usize subtraction overflows, a build
\* with overflow checks panics, and one without wraps around, which gives
\* BadSize(a, b + 2^64)
from_buf_build(buf, overflow_checks) ==
    Only({ IF r.res # "Underflow" THEN r
           ELSE IF overflow_checks THEN [r EXCEPT !.res = "panic"]
           ELSE [r EXCEPT !.res = "BadSize"] :
           r \in {from_buf(buf)} })

RECURSIVE SeqsUpTo(_, _)
\* the sequences over S of length at most n
SeqsUpTo(S, n) ==
    IF n = 0 THEN {<<>>}
    ELSE LET shorter == SeqsUpTo(S, n - 1)
         IN  shorter \cup {Append(s, x) : s \in {q \in shorter : Len(q) = n - 1}, x \in S}

\* the packets handed to to_buf: every combination of these raw header
\* values with a short payload, and the packet of the crate's own test
CodecMagics == {0, 143, 159, 255}
CodecKinds == {0, 115}
CodecVersions == {0, 1, 2, 4329, 65535}
HelloWorld == <<72, 101, 108, 108, 111, 32, 119, 111, 114, 108, 100>>
CodecPackets ==
    {CloudProtoPacket(MagicFromU8(m), k, VersionFromU16(v), pl) :
         m \in CodecMagics, k \in CodecKinds, v \in CodecVersions,
         pl \in SeqsUpTo({0, 255}, MaxPayloadLen)}
    \cup {CloudProtoPacket(Magic_Other(255), 115, Version_Other(4329), HelloWorld)}

\* the frames handed to from_buf directly: the first n bytes of a header that
\* announces a bytes and of what follows it
AnnouncedLengths == {0, 3, 7, 8, 9, MaxFrameBytes, MaxFrameBytes + 1, 16777216}
CodecFrames ==
    {SubSeq(HeadOf(a) \o Fill(MaxFrameBytes - COMMON_HDR_LEN, 7), 1, n) :
         a \in AnnouncedLengths, n \in 0..MaxFrameBytes}

NoOut == [res |-> "", pkt |-> NoPkt, a |-> 0, b |-> 0]

CodecInit ==
    /\ SessionInit(MaxCap)
    /\ HandshakeIdle
    /\ link = Off
    /\ other = Off
    /\ \/ \E pkt \in CodecPackets :
              calc = [pc |-> "packet", pkt |-> pkt, bytes |-> <<>>, out |-> NoOut]
       \/ \E b \in CodecFrames :
              calc = [pc |-> "frame", pkt |-> NoPkt, bytes |-> b, out |-> NoOut]

CalcOnly == UNCHANGED <<svars, hvars, link, other>>

\* to_buf is called on the packet
CallToBuf ==
    /\ calc.pc = "packet"
    /\ calc' = [calc EXCEPT !.pc = "encoded", !.bytes = to_buf(calc.pkt)]
    /\ CalcOnly

\* from_buf is called on the bytes to_buf gave
CallFromBufOnEncoded ==
    /\ calc.pc = "encoded"
    /\ \E oc \in BOOLEAN :
           calc' = [calc EXCEPT !.pc = "roundtrip", !.out = from_buf_build(calc.bytes, oc)]
    /\ CalcOnly

\* from_buf is called on a frame
CallFromBufOnFrame ==
    /\ calc.pc = "frame"
    /\ \E oc \in BOOLEAN :
           calc' = [calc EXCEPT !.pc = "decoded", !.out = from_buf_build(calc.bytes, oc)]
    /\ CalcOnly

NextCodec ==
    \/ CallToBuf
    \/ CallFromBufOnEncoded
    \/ CallFromBufOnFrame

SpecCodec == CodecInit /\ [][NextCodec]_vars

\* the header of a packet, byte by byte, from its raw values
HeaderBytes(m, k, v, total) ==
    <<m, k, v \div 256, v % 256,
      (total \div 16777216) % 256, (total \div 65536) % 256, (total \div 256) % 256,
      total % 256>>

\* C14: decode(encode(packet)) is the packet, and the encoded bytes are the
\* 8-byte big-endian header with total_length = 8 + len(payload) followed by
\* the payload
C14_PacketRoundTrip ==
    /\ calc.pc \in {"encoded", "roundtrip"} =>
           calc.bytes = HeaderBytes(MagicToU8(calc.pkt.magic), calc.pkt.kind,
                                    VersionToU16(calc.pkt.version),
                                    COMMON_HDR_LEN + Len(calc.pkt.payload))
                            \o calc.pkt.payload
    /\ calc.pc = "roundtrip" => (calc.out.res = "ok" /\ calc.out.pkt = calc.pkt)

\* the packet of the crate's test has gone through to_buf and from_buf:
\* FF 73 10 E9 00 00 00 13, then "Hello world"
C14_Witness ==
    /\ calc.pc = "roundtrip"
    /\ calc.pkt.payload = HelloWorld
    /\ SubSeq(calc.bytes, 1, COMMON_HDR_LEN) = <<255, 115, 16, 233, 0, 0, 0, 19>>
    /\ calc.out.pkt = calc.pkt

\* the total_length a frame of at least 8 bytes announces
Announced(b) == from_be_bytes(SubSeq(b, 5, COMMON_HDR_LEN))

U8_MAX == 255
U16_MAX == 65535

TagTypes == {"Magic", "TsKind", "LfoKind", "Version"}

\* the raw values of a type, its named variants, its two conversions
RawValues(type) == IF type = "Version" THEN 0..U16_MAX ELSE 0..U8_MAX
NamedVariants(type) ==
    CASE type = "Magic" -> {Magic_TS, Magic_LFO}
      [] type = "TsKind" -> {TsKind_Connect, TsKind_ConnectionEstablished,
                             TsKind_Event, TsKind_Ack}
      [] type = "LfoKind" -> {LfoKind_GetFileRequest, LfoKind_ReplyOk, LfoKind_ReplyFail}
      [] type = "Version" -> {Version_Normal, Version_Connect}
TagFrom(type, raw) ==
    CASE type = "Magic" -> MagicFromU8(raw)
      [] type = "TsKind" -> TsKindFromU8(raw)
      [] type = "LfoKind" -> LfoKindFromU8(raw)
      [] type = "Version" -> VersionFromU16(raw)
TagInto(type, tag) ==
    CASE type = "Magic" -> MagicToU8(tag)
      [] type = "TsKind" -> TsKindToU8(tag)
      [] type = "LfoKind" -> LfoKindToU8(tag)
      [] type = "Version" -> VersionToU16(tag)

TagsInit ==
    /\ SessionInit(MaxCap)
    /\ HandshakeIdle
    /\ link = Off
    /\ other = Off
    /\ \E type \in TagTypes : \E raw \in RawValues(type) :
           calc = [pc |-> "raw", type |-> type, raw |-> raw,
                   tag |-> TsKind_Other(0), back |-> 0]

\* T::from(raw)
TagFromRaw ==
    /\ calc.pc = "raw"
    /\ calc' = [calc EXCEPT !.pc = "tag", !.tag = TagFrom(calc.type, calc.raw)]
    /\ CalcOnly

\* the raw type's from(tag)
TagToRaw ==
    /\ calc.pc = "tag"
    /\ calc' = [calc EXCEPT !.pc = "back", !.back = TagInto(calc.type, calc.tag)]
    /\ CalcOnly

NextTags ==
    \/ TagFromRaw
    \/ TagToRaw

SpecTags == TagsInit /\ [][NextTags]_vars

\* the raw values of the named variants of a type
NamedRaws(type) == {TagInto(type, v) : v \in NamedVariants(type)}

\* C16: for Magic, ET kind, FF kind (every u8) and Version (every u16), the
\* raw value converted to the tag and back is the same raw value; a named
\* value is decoded as its named variant and never as Other, Other holds only
\* the values that are not named, and every variant comes from some raw value
C16_TagRoundTrip ==
    /\ calc.pc = "back" => calc.back = calc.raw
    /\ calc.pc \in {"tag", "back"} =>
           /\ calc.raw \in NamedRaws(calc.type) <=> calc.tag \in NamedVariants(calc.type)
           /\ calc.tag.tag = "Other" <=> calc.raw \notin NamedRaws(calc.type)
           /\ calc.tag.tag = "Other" => calc.tag.val = calc.raw
           /\ \A v \in NamedVariants(calc.type) : TagFrom(calc.type, TagInto(calc.type, v)) = v
           /\ TagFrom(calc.type, 0).tag = "Other"
           /\ Cardinality(NamedRaws(calc.type)) = Cardinality(NamedVariants(calc.type))

\* the ET kind 4 has been converted to Ack and back
C16_Witness ==
    /\ calc.pc = "back"
    /\ calc.type = "TsKind"
    /\ calc.raw = 4
    /\ calc.tag = TsKind_Ack
    /\ calc.back = 4

(***************************************************************************)
(* Two sessions back to back: the events of one reach the other            *)
(***************************************************************************)
\* the capacity of the transport from the sending session to the receiving
PairCap == 16

\* the events the sending session is given: built by new and by new_raw, with
\* and without data, with an id of the catalog and with one outside it
PairEvents ==
    {Event_new(864026796, <<>>), Event_new_raw(7, <<1, 2, 3>>),
     Event_new_raw(813695149, <<9>>)}

\* the receiving session is the one of the session variables, its read half
\* the link's; the sending session (other) writes to the link and reads the
\* receiving session's Acks
PairInit ==
    /\ SessionInit(MaxCap)
    /\ HandshakeIdle
    /\ calc = Off
    /\ link = LinkNew(PairCap, "crate", SessionMaxFrame)
    /\ other = [pc |-> "on", next_txid |-> TsEventSocket_new.next_txid, sent |-> <<>>]

\* bytes that reach the transport wake the task that reads the stream
WakeReaderIfWritten ==
    /\ woken' = (woken \/ (rdWaker /\ link'.wrote > link.wrote))
    /\ rdWaker' = (rdWaker /\ ~(link'.wrote > link.wrote))

\* the sending session's sink is fed an event: poll_ready, and start_send
\* once that is Ready
OtherSinkSend ==
    /\ Len(other.sent) < MaxSends
    /\ \E ev \in PairEvents, r \in {Sink_poll_ready(link)} :
           IF r.res = "ready"
           THEN \E s \in {Sink_start_send([next_txid |-> other.next_txid] @@ r.s, ev)} :
                    /\ link' = [f \in DOMAIN link |-> s[f]]
                    /\ other' = [other EXCEPT !.next_txid = s.next_txid,
                                              !.sent = Append(@, ev)]
           ELSE /\ link' = r.s
                /\ other' = other
    /\ WakeReaderIfWritten
    /\ NotAPoll
    /\ UNCHANGED <<next_txid, unacked_txid, unacked_event, inq, inClosed, outLog,
                   wrote, cap, peerRead, outFail, wrWaker, nIn, recvLog, ghost_txid,
                   delivered, hvars, calc>>

\* the sending session's sink is flushed
OtherSinkFlush ==
    /\ BufLen(link) > 0
    /\ link' = Sink_poll_flush(link).s
    /\ WakeReaderIfWritten
    /\ NotAPoll
    /\ UNCHANGED <<next_txid, unacked_txid, unacked_event, inq, inClosed, outLog,
                   wrote, cap, peerRead, outFail, wrWaker, nIn, recvLog, ghost_txid,
                   delivered, hvars, calc, other>>

\* PeerRead: the sending session's stream takes the Acks and ignores them
NextPair ==
    \/ OtherSinkSend
    \/ OtherSinkFlush
    \/ PollNext
    \/ PeerRead

SpecPair == PairInit /\ [][NextPair]_vars

\* raw_event_id and data of a sequence of events
IdAndData(evs) == [i \in 1..Len(evs) |-> <<evs[i].raw_event_id, evs[i].data>>]
DeliveredEvents == [i \in 1..Len(delivered) |-> delivered[i].ev]

\* the payload of the i-th Event packet on the wire: txid || raw_event_id || data
WirePayload(i) ==
    SubSeq(link.outLog[i], COMMON_HDR_LEN + 1, Len(link.outLog[i]))
ExpectedPayload(i) ==
    to_be_bytes(FIRST_TXID + (i - 1) * TXID_INCREMENT, HDR_TXID_SIZE)
        \o to_be_bytes(other.sent[i].raw_event_id, EVT_HDR_LEN)
        \o other.sent[i].data

\* C17: between two sessions back to back, the events sent through one
\* session's sink are delivered by the other's stream with equal raw_event_id
\* and data, in the same order, each once; the txid is on the wire before the
\* event and is not part of what is delivered
C17_EventsBetweenSessions ==
    /\ IsPrefix(IdAndData(DeliveredEvents), IdAndData(other.sent))
    /\ Len(link.outLog) = Len(other.sent)
    /\ \A i \in 1..Len(link.outLog) : WirePayload(i) = ExpectedPayload(i)
    /\ \A i \in 1..Len(delivered) :
           /\ delivered[i].txid = FIRST_TXID + (i - 1) * TXID_INCREMENT
           /\ delivered[i].ev = Event_from_read(Event_into_write(other.sent[i]))
    /\ (WaitsForInbound /\ BufLen(link) = 0 /\ link.wrote = link.peerRead) =>
           IdAndData(DeliveredEvents) = IdAndData(other.sent)

\* two different events have crossed, the second with data
C17_Witness ==
    /\ Len(other.sent) = 2
    /\ other.sent[1] # other.sent[2]
    /\ other.sent[2].data # <<>>
    /\ Len(delivered) = 2
    /\ IdAndData(DeliveredEvents) = IdAndData(other.sent)

(***************************************************************************)
(* Calls of the Event constructors and of its serialization                *)
(***************************************************************************)
\* the longest data of an event built here
MaxEventData == 2

\* ids of the catalog, and raw ids: some of the catalog, some outside it
\* (0x7FFFFFFF is the largest value of TLC's integers)
CatalogIds == {813695149, 864026796, 872415470}
RawIds == CatalogIds \cup {0, 7, 2147483647}
EventDatas == SeqsUpTo({0, 255}, MaxEventData)

NoBytes == <<>>

EventsInit ==
    /\ SessionInit(MaxCap)
    /\ HandshakeIdle
    /\ link = Off
    /\ other = Off
    /\ \/ \E id \in CatalogIds, data \in EventDatas :
              calc = [pc |-> "new", id |-> id, data |-> data,
                      ev |-> Event_new_raw(0, <<>>), bytes |-> NoBytes,
                      ev2 |-> Event_new_raw(0, <<>>)]
       \/ \E id \in RawIds, data \in EventDatas :
              calc = [pc |-> "new_raw", id |-> id, data |-> data,
                      ev |-> Event_new_raw(0, <<>>), bytes |-> NoBytes,
                      ev2 |-> Event_new_raw(0, <<>>)]

\* Event::new(event_id, data)
CallEventNew ==
    /\ calc.pc = "new"
    /\ calc' = [calc EXCEPT !.pc = "event", !.ev = Event_new(calc.id, calc.data)]
    /\ CalcOnly

\* Event::new_raw(raw_event_id, data)
CallEventNewRaw ==
    /\ calc.pc = "new_raw"
    /\ calc' = [calc EXCEPT !.pc = "event", !.ev = Event_new_raw(calc.id, calc.data)]
    /\ CalcOnly

\* ev.clone().into_write(&mut buf) on an empty Vec
CallIntoWrite ==
    /\ calc.pc = "event"
    /\ calc' = [calc EXCEPT !.pc = "written", !.bytes = Event_into_write(calc.ev)]
    /\ CalcOnly

\* Event::from_read(&mut buf.reader())
CallFromRead ==
    /\ calc.pc = "written"
    /\ calc' = [calc EXCEPT !.pc = "read", !.ev2 = Event_from_read(calc.bytes)]
    /\ CalcOnly

NextEvents ==
    \/ CallEventNew
    \/ CallEventNewRaw
    \/ CallIntoWrite
    \/ CallFromRead

SpecEvents == EventsInit /\ [][NextEvents]_vars

\* C18: for every Event, built by new or by new_raw, with an id of the catalog
\* or not, and every data, from_read of the bytes into_write gives is an Event
\* equal to the original (the derived equality: raw_event_id, event_id, data)
C18_EventRoundTrip ==
    calc.pc = "read" => calc.ev2 = calc.ev

(***************************************************************************)
(* The reply of the file service: LfoFileHeader and LfoResponse            *)
(***************************************************************************)
LFO_RESP_HDR_LEN == 42
CRC_LEN == 4
CompressionFormats_None == 0
CompressionFormats_Xz == 1
\* offsets of the fields of the reply header
CHUNK_OFF_LEN == 4
DATA_HASH_LEN == 32
COMP_FORMAT_LEN == 2
\* the length below which a ReplyFail payload carries no message
FAIL_MSG_OFFSET == 8
U16_HALF == 65536
\* U+FFFD, what from_utf8_lossy puts in place of an invalid byte
REPLACEMENT_CHARACTER == 65533
\* the halves of 0xEDB88320, the reflected polynomial of CRC-32
CRC_POLY_HI == 60856
CRC_POLY_LO == 33568

\* exclusive or of two integers of n bits
RECURSIVE XorBits(_, _, _)
XorBits(a, b, n) ==
    IF n = 0 THEN 0
    ELSE ((a + b) % 2) + 2 * XorBits(a \div 2, b \div 2, n - 1)

Xor16(a, b) == XorBits(a, b, 16)

\* a u32 as its two 16-bit halves <<high, low>>
U32Halves(b) == <<b[1] * 256 + b[2], b[3] * 256 + b[4]>>

\* one bit of the CRC: shift right, exclusive or with the polynomial if the
\* bit shifted out was set
crc_bit(c) ==
    Only({ IF c[2] % 2 = 1
           THEN <<Xor16(s[1], CRC_POLY_HI), Xor16(s[2], CRC_POLY_LO)>>
           ELSE s :
           s \in {<<c[1] \div 2, (c[2] \div 2) + (c[1] % 2) * (U16_HALF \div 2)>>} })

RECURSIVE crc_bits(_, _)
crc_bits(c, n) ==
    IF n = 0 THEN c ELSE Only({ crc_bits(d, n - 1) : d \in {crc_bit(c)} })

\* the bytes one after the other (the recursion halves the data)
RECURSIVE crc_update(_, _)
crc_update(c, data) ==
    IF data = <<>> THEN c
    ELSE IF Len(data) = 1 THEN crc_bits(<<c[1], Xor16(c[2], Head(data))>>, 8)
    ELSE Only({ crc_update(d, SubSeq(data, Len(data) \div 2 + 1, Len(data))) :
                d \in {crc_update(c, SubSeq(data, 1, Len(data) \div 2))} })

\* crc32fast::hash: CRC-32 (reflected, initial value and final exclusive or
\* 0xFFFFFFFF), as the two halves of the u32
crc32fast_hash(data) ==
    Only({ <<U16_HALF - 1 - r[1], U16_HALF - 1 - r[2]>> :
           r \in {crc_update(<<U16_HALF - 1, U16_HALF - 1>>, data)} })

\* (mutant) the CRC is not compared
LfoFileHeader_try_from_NoCrc(lfo_payload) ==
    IF Len(lfo_payload) < LFO_RESP_HDR_LEN + CRC_LEN
    THEN [ok |-> FALSE, reason |-> "header too small", comp_format |-> 0, payload_size |-> 0,
          data_hash |-> <<>>]
    ELSE LET chunk_start_off == from_be_bytes(SubSeq(lfo_payload, 1, CHUNK_OFF_LEN))
             chunk_end_off == from_be_bytes(SubSeq(lfo_payload, CHUNK_OFF_LEN + 1,
                                                   2 * CHUNK_OFF_LEN))
             comp_format == from_be_bytes(SubSeq(lfo_payload,
                                                 2 * CHUNK_OFF_LEN + DATA_HASH_LEN + 1,
                                                 LFO_RESP_HDR_LEN))
             len_without_crc == Len(lfo_payload) - LFO_RESP_HDR_LEN - CRC_LEN
             err(reason) == [ok |-> FALSE, reason |-> reason, comp_format |-> 0,
                             payload_size |-> 0, data_hash |-> <<>>]
         IN  IF chunk_start_off > chunk_end_off THEN err("start past end")
             ELSE IF chunk_start_off # 0 THEN err("non-0 offset")
             ELSE IF comp_format = 0 /\ chunk_end_off - chunk_start_off # len_without_crc
             THEN err("size mismatch")
             ELSE [ok |-> TRUE, reason |-> "", comp_format |-> comp_format,
                   payload_size |-> chunk_end_off,
                   data_hash |-> SubSeq(lfo_payload, 2 * CHUNK_OFF_LEN + 1,
                                        2 * CHUNK_OFF_LEN + DATA_HASH_LEN)]

\* LfoFileHeader::try_from(&[u8]): the header of a ReplyOk payload, or the
\* reason it is refused (magic, unk_cst1, cur_state and unk are constants,
\* data_hash and cur_payload_size are copies of the input)
LfoFileHeader_try_from(lfo_payload) ==
    IF Len(lfo_payload) < LFO_RESP_HDR_LEN + CRC_LEN
    THEN [ok |-> FALSE, reason |-> "header too small", comp_format |-> 0, payload_size |-> 0,
          data_hash |-> <<>>]
    ELSE LET payload_data == SubSeq(lfo_payload, LFO_RESP_HDR_LEN + 1, Len(lfo_payload))
             chunk_start_off == from_be_bytes(SubSeq(lfo_payload, 1, CHUNK_OFF_LEN))
             chunk_end_off == from_be_bytes(SubSeq(lfo_payload, CHUNK_OFF_LEN + 1,
                                                   2 * CHUNK_OFF_LEN))
             comp_format == from_be_bytes(SubSeq(lfo_payload,
                                                 2 * CHUNK_OFF_LEN + DATA_HASH_LEN + 1,
                                                 LFO_RESP_HDR_LEN))
             len_without_crc == Len(payload_data) - CRC_LEN
             expected_crc == U32Halves(SubSeq(payload_data, len_without_crc + 1,
                                              Len(payload_data)))
             crc == crc32fast_hash(SubSeq(payload_data, 1, len_without_crc))
             err(reason) == [ok |-> FALSE, reason |-> reason, comp_format |-> 0,
                             payload_size |-> 0, data_hash |-> <<>>]
         IN  IF chunk_start_off > chunk_end_off THEN err("start past end")
             ELSE IF chunk_start_off # 0 THEN err("non-0 offset")
             ELSE IF comp_format = 0 /\ chunk_end_off - chunk_start_off # len_without_crc
             THEN err("size mismatch")
             ELSE IF crc # expected_crc THEN err("crc")
             ELSE [ok |-> TRUE, reason |-> "", comp_format |-> comp_format,
                   payload_size |-> chunk_end_off,
                   data_hash |-> SubSeq(lfo_payload, 2 * CHUNK_OFF_LEN + 1,
                                        2 * CHUNK_OFF_LEN + DATA_HASH_LEN)]

NoHeader == [ok |-> FALSE, reason |-> "", comp_format |-> 0, payload_size |-> 0,
          data_hash |-> <<>>]
LfoErr(res, kind, msg, reason, raw_payload) ==
    [res |-> res, kind |-> kind, msg |-> msg, reason |-> reason,
     raw_payload |-> raw_payload, header |-> NoHeader, lfo_data |-> <<>>,
     read_state |-> ""]

\* LfoResponse::try_from_raw_lfo_payload; xz: the build has the feature
\* lfo-compress-xz
try_from_raw_lfo_payload(raw_payload, xz) ==
    Only({ IF ~header.ok
           THEN LfoErr("ReplyParseError", 0, <<>>, header.reason, raw_payload)
           ELSE IF header.comp_format # CompressionFormats_None
                   /\ ~(xz /\ header.comp_format = CompressionFormats_Xz)
           THEN LfoErr("ReplyParseError", 0, <<>>, "unsupported compression", raw_payload)
           ELSE [res |-> "ok", kind |-> 0, msg |-> <<>>, reason |-> "",
                 raw_payload |-> raw_payload, header |-> header,
                 lfo_data |-> SubSeq(raw_payload, LFO_RESP_HDR_LEN + 1,
                                     Len(raw_payload) - CRC_LEN),
                 read_state |-> IF header.comp_format = CompressionFormats_None
                                THEN "Direct" ELSE "Compressed"] :
           header \in {LfoFileHeader_try_from(raw_payload)} })

\* String::from_utf8_lossy on bytes that are ASCII or can start no UTF-8
\* sequence (0xF8 and above): the code points of the text
from_utf8_lossy(b) ==
    [i \in 1..Len(b) |-> IF b[i] < 128 THEN b[i] ELSE REPLACEMENT_CHARACTER]

\* "internal error"
InternalErrorText == <<105, 110, 116, 101, 114, 110, 97, 108, 32, 101, 114, 114, 111, 114>>
\* "other text"
OtherText == <<111, 116, 104, 101, 114, 32, 116, 101, 120, 116>>

\* (mutant) a ReplyFail is a server error whatever its length
LfoResponse_try_from_AnyFail(reply, xz) ==
    IF reply.kind = LfoKindToU8(LfoKind_ReplyFail)
    THEN LET msg == from_utf8_lossy(SubSeq(reply.payload, FAIL_MSG_OFFSET + 1,
                                           Len(reply.payload)))
         IN  IF msg = InternalErrorText
             THEN LfoErr("NotFound", 0, <<>>, "", <<>>)
             ELSE LfoErr("ServerError", 0, msg, "", <<>>)
    ELSE IF reply.kind = LfoKindToU8(LfoKind_ReplyOk)
    THEN try_from_raw_lfo_payload(reply.payload, xz)
    ELSE LfoErr("BadReplyKind", reply.kind, <<>>, "", <<>>)

\* TryFrom<CloudProtoPacket> for LfoResponse
LfoResponse_try_from(reply, xz) ==
    IF reply.kind = LfoKindToU8(LfoKind_ReplyFail) /\ Len(reply.payload) >= FAIL_MSG_OFFSET
    THEN LET msg == from_utf8_lossy(SubSeq(reply.payload, FAIL_MSG_OFFSET + 1,
                                           Len(reply.payload)))
         IN  IF msg = InternalErrorText
             THEN LfoErr("NotFound", 0, <<>>, "", <<>>)
             ELSE LfoErr("ServerError", 0, msg, "", <<>>)
    ELSE IF reply.kind = LfoKindToU8(LfoKind_ReplyOk)
    THEN try_from_raw_lfo_payload(reply.payload, xz)
    ELSE LfoErr("BadReplyKind", reply.kind, <<>>, "", <<>>)

(***************************************************************************)
(* Calls of LfoResponse::try_from                                          *)
(***************************************************************************)
\* the ReplyOk payload of simple_test_vector (TEST_REPLY_DATA), uncompressed
TEST_REPLY_DATA ==
  <<
    0, 0, 0, 0, 0, 0, 0, 212, 163, 48, 134, 154, 203, 52, 26, 216, 27, 75,
    100, 249, 46, 215, 184, 94, 10, 54, 26, 176, 68, 144, 23, 169, 247, 165,
    240, 146, 118, 164, 54, 85, 0, 0, 170, 170, 170, 170, 1, 0, 34, 0, 0, 0,
    3, 0, 0, 0, 0, 0, 2, 0, 0, 0, 200, 0, 0, 0, 172, 0, 0, 0, 3, 0, 8, 0, 1,
    0, 0, 0, 12, 0, 0, 0, 3, 0, 0, 0, 2, 0, 0, 0, 28, 0, 0, 0, 40, 0, 0, 0, 0,
    0, 0, 0, 56, 0, 0, 0, 148, 0, 0, 0, 120, 0, 121, 0, 88, 255, 97, 0, 110,
    0, 0, 0, 65, 98, 99, 100, 69, 102, 71, 104, 105, 106, 107, 108, 77, 0, 0,
    0, 0, 47, 17, 0, 0, 92, 17, 0, 1, 71, 14, 0, 1, 71, 21, 0, 1, 88, 22, 0,
    1, 71, 14, 0, 1, 92, 3, 0, 1, 69, 4, 0, 0, 124, 255, 255, 0, 47, 5, 0, 0,
    92, 5, 0, 5, 0, 8, 0, 1, 77, 6, 0, 1, 46, 7, 0, 1, 65, 12, 0, 1, 77, 13,
    0, 3, 0, 1, 0, 0, 124, 255, 255, 0, 47, 8, 0, 0, 92, 8, 0, 5, 0, 17, 0, 1,
    65, 15, 0, 1, 69, 16, 0, 160, 0, 0, 0, 28, 0, 0, 0, 12, 0, 0, 0, 1, 0, 0,
    0, 188, 0, 0, 0, 0, 0, 0, 0, 127, 193, 243, 111
  >>

\* the ReplyOk payload of xz_test_vector, xz-compressed
XzTestVector ==
  <<
    0, 0, 0, 0, 0, 0, 1, 86, 88, 221, 0, 152, 94, 241, 195, 4, 185, 115, 55,
    79, 173, 135, 38, 174, 172, 151, 105, 254, 69, 209, 190, 162, 51, 86, 48,
    176, 137, 155, 158, 246, 0, 1, 253, 55, 122, 88, 90, 0, 0, 1, 105, 34,
    222, 54, 2, 0, 33, 1, 28, 0, 0, 0, 16, 207, 88, 204, 224, 1, 85, 0, 100,
    93, 0, 85, 104, 124, 64, 1, 96, 48, 108, 44, 236, 149, 19, 188, 67, 96,
    198, 135, 150, 227, 185, 130, 167, 106, 209, 128, 36, 175, 89, 43, 143, 4,
    74, 174, 57, 55, 228, 43, 236, 3, 51, 111, 164, 58, 62, 205, 34, 132, 99,
    212, 84, 90, 232, 207, 153, 169, 99, 104, 191, 195, 215, 19, 123, 95, 31,
    229, 203, 66, 1, 195, 146, 142, 106, 7, 137, 92, 186, 95, 114, 32, 210,
    163, 245, 64, 7, 104, 241, 166, 58, 204, 83, 174, 90, 187, 241, 61, 91,
    107, 132, 0, 0, 0, 195, 217, 145, 106, 0, 1, 124, 214, 2, 0, 0, 0, 21, 91,
    9, 19, 62, 48, 13, 139, 2, 0, 0, 0, 0, 1, 89, 90, 117, 226, 210, 129
  >>

\* the header of a ReplyOk payload
ReplyHeader(chunk_start_off, chunk_end_off, comp_format) ==
    to_be_bytes(chunk_start_off, CHUNK_OFF_LEN) \o to_be_bytes(chunk_end_off, CHUNK_OFF_LEN)
        \o Fill(DATA_HASH_LEN, 0) \o to_be_bytes(comp_format, COMP_FORMAT_LEN)

\* file data and its CRC-32 as the server appends it: 00000000 for no data,
\* E8B7BE43 for "a", 9E83486D for "ab"
LfoDatas == {<<>>, <<97>>, <<97, 98>>}
CrcOf(data) ==
    CASE data = <<>> -> <<0, 0, 0, 0>>
      [] data = <<97>> -> <<232, 183, 190, 67>>
      [] data = <<97, 98>> -> <<158, 131, 72, 109>>
WrongCrc == <<0, 0, 0, 1>>

\* payloads a ReplyOk may carry: every combination of offsets, format, data
\* and right or wrong CRC, the payloads of the crate's tests, payloads that
\* are too short
OkPayloads ==
    { ReplyHeader(s, e, c) \o dt :
        s \in {0, 1}, e \in {0, 1, 2}, c \in {0, 1, 2},
        dt \in UNION {{d \o CrcOf(d), d \o WrongCrc} : d \in LfoDatas} }
    \cup {TEST_REPLY_DATA, XzTestVector, <<>>, Fill(LFO_RESP_HDR_LEN + CRC_LEN - 1, 0)}

\* payloads a ReplyFail may carry
FailPayloads ==
    { <<>>, Fill(FAIL_MSG_OFFSET - 1, 0), Fill(FAIL_MSG_OFFSET, 0),
      Fill(FAIL_MSG_OFFSET, 0) \o InternalErrorText,
      Fill(FAIL_MSG_OFFSET, 1) \o InternalErrorText,
      Fill(FAIL_MSG_OFFSET, 0) \o OtherText,
      Fill(FAIL_MSG_OFFSET, 0) \o InternalErrorText \o <<255>>,
      Fill(FAIL_MSG_OFFSET - 1, 0) \o InternalErrorText,
      Fill(FAIL_MSG_OFFSET - 1, 0) \o <<255>> }

ReplyKinds == {0, 1, 2, 3, 4, 255}
ReplyMagics == {Magic_TS, Magic_LFO}

RepliesInit ==
    /\ SessionInit(MaxCap)
    /\ HandshakeIdle
    /\ link = Off
    /\ other = Off
    /\ \E magic \in ReplyMagics, kind \in ReplyKinds,
          payload \in OkPayloads \cup FailPayloads, xz \in BOOLEAN :
           calc = [pc |-> "reply",
                   pkt |-> CloudProtoPacket(magic, kind, Version_Normal, payload),
                   xz |-> xz, out |-> LfoErr("", 0, <<>>, "", <<>>)]

\* LfoResponse::try_from(reply)
CallLfoResponseTryFrom ==
    /\ calc.pc = "reply"
    /\ calc' = [calc EXCEPT !.pc = "done", !.out = LfoResponse_try_from(calc.pkt, calc.xz)]
    /\ CalcOnly

NextReplies == CallLfoResponseTryFrom

SpecReplies == RepliesInit /\ [][NextReplies]_vars

\* C19: a reply of kind ReplyFail with at least 8 payload bytes is NotFound
\* when payload[8:] is "internal error" and ServerError(the text) otherwise;
\* a reply of kind ReplyOk goes to the parsing of its payload; every other
\* reply, a ReplyFail with fewer than 8 payload bytes included, is
\* BadReplyKind(kind)
C19_ReplyClassification ==
    calc.pc = "done" =>
        LET p == calc.pkt
            o == calc.out
            text == SubSeq(p.payload, FAIL_MSG_OFFSET + 1, Len(p.payload))
        IN  IF p.kind = 3 /\ Len(p.payload) >= FAIL_MSG_OFFSET
            THEN IF text = InternalErrorText
                 THEN o.res = "NotFound"
                 ELSE /\ o.res = "ServerError"
                      /\ Len(o.msg) = Len(text)
                      /\ \A i \in 1..Len(text) : text[i] < 128 => o.msg[i] = text[i]
            ELSE IF p.kind = 2
            THEN /\ o.res \in {"ok", "ReplyParseError"}
                 /\ o.raw_payload = p.payload
            ELSE o.res = "BadReplyKind" /\ o.kind = p.kind

\* a ReplyFail of 7 bytes, and one whose text is "internal error" after 7
\* bytes, are BadReplyKind and ServerError
C19_Witness ==
    /\ calc.pc = "done"
    /\ calc.pkt.kind = 3
    /\ Len(calc.pkt.payload) = FAIL_MSG_OFFSET - 1
    /\ calc.out.res = "BadReplyKind"
    /\ calc.out.kind = 3

\* the fields of a ReplyOk payload of at least 0x2E bytes
ChunkStartOff(b) == from_be_bytes(SubSeq(b, 1, 4))
ChunkEndOff(b) == from_be_bytes(SubSeq(b, 5, 8))
CompFormat(b) == from_be_bytes(SubSeq(b, 41, 42))
\* the conditions under which a ReplyOk payload is parsed
ReplyOkConditions(b, xz) ==
    /\ Len(b) >= 46
    /\ ChunkStartOff(b) = 0
    /\ CompFormat(b) = 0 => ChunkEndOff(b) = Len(b) - 46
    /\ crc32fast_hash(SubSeq(b, 43, Len(b) - 4)) = U32Halves(SubSeq(b, Len(b) - 3, Len(b)))
    /\ CompFormat(b) = 0 \/ (CompFormat(b) = 1 /\ xz)

\* C20: the payload of a ReplyOk is parsed exactly when its length is at
\* least 0x2E, chunk_start_off is 0, for comp_format 0 chunk_end_off is the
\* length of the data without the CRC, the CRC-32 of the data is the trailing
\* big-endian u32 and comp_format is 0, or 1 in a build with decompression;
\* otherwise the result is ReplyParseError and there is no response
C20_ReplyOkParsing ==
    (calc.pc = "done" /\ calc.pkt.kind = 2) =>
        IF ReplyOkConditions(calc.pkt.payload, calc.xz)
        THEN /\ calc.out.res = "ok"
             /\ calc.out.header.ok
        ELSE /\ calc.out.res = "ReplyParseError"
             /\ calc.out.header = NoHeader
             /\ calc.out.lfo_data = <<>>
             /\ calc.out.read_state = ""

\* the payload of xz_test_vector is parsed in a build with decompression
C20_Witness ==
    /\ calc.pc = "done"
    /\ calc.pkt.kind = 2
    /\ calc.pkt.payload = XzTestVector
    /\ calc.xz
    /\ calc.out.res = "ok"
    /\ calc.out.read_state = "Compressed"
    /\ Len(calc.out.lfo_data) = Len(XzTestVector) - 46

(***************************************************************************)
(* The file of a response: data() and read()                               *)
(***************************************************************************)
\* the most comparisons of the running hash a sequence of read() calls makes
MaxHashChecks == 2

\* the longest buffer given to read(), short of one that holds a whole file
MaxBuf == 2
\* a buffer that holds any file of the model
WholeBuf == 400

\* the file of simple_test_vector: the data of TEST_REPLY_DATA
TestFile == SubSeq(TEST_REPLY_DATA, LFO_RESP_HDR_LEN + 1, Len(TEST_REPLY_DATA) - CRC_LEN)

\* the file of xz_test_vector: what xz gives for the data of XzTestVector
XzTestFile ==
  <<
    170, 170, 170, 170, 1, 0, 21, 0, 0, 0, 4, 0, 0, 0, 0, 0, 6, 0, 0, 0, 74,
    1, 0, 0, 28, 0, 0, 0, 173, 0, 0, 0, 38, 0, 0, 0, 175, 0, 0, 0, 38, 0, 0,
    0, 3, 0, 8, 0, 28, 0, 0, 0, 12, 0, 0, 0, 3, 0, 8, 0, 36, 0, 0, 0, 20, 0,
    0, 0, 174, 0, 0, 0, 38, 0, 0, 0, 3, 0, 8, 0, 68, 0, 0, 0, 12, 0, 0, 0, 3,
    0, 8, 0, 36, 0, 0, 0, 20, 0, 0, 0, 103, 0, 0, 0, 38, 0, 0, 0, 3, 0, 8, 0,
    100, 0, 0, 0, 12, 0, 0, 0, 3, 0, 8, 0, 28, 0, 0, 0, 18, 0, 0, 0, 114, 23,
    0, 0, 0, 0, 0, 0, 2, 0, 44, 0, 0, 0, 18, 0, 0, 0, 127, 23, 0, 0, 0, 0, 0,
    0, 2, 0, 44, 0, 0, 0, 18, 0, 0, 0, 131, 23, 0, 0, 0, 0, 0, 0, 2, 0, 76, 0,
    0, 0, 18, 0, 0, 0, 132, 23, 0, 0, 0, 0, 0, 0, 2, 0, 44, 0, 0, 0, 18, 0, 0,
    0, 133, 23, 0, 0, 0, 0, 0, 0, 2, 0, 44, 0, 0, 0, 18, 0, 0, 0, 134, 23, 0,
    0, 0, 0, 0, 0, 2, 0, 76, 0, 0, 0, 18, 0, 0, 0, 135, 23, 0, 0, 0, 0, 0, 0,
    2, 0, 44, 0, 0, 0, 18, 0, 0, 0, 136, 23, 0, 0, 0, 0, 0, 0, 2, 0, 44, 0, 0,
    0, 18, 0, 0, 0, 137, 23, 0, 0, 0, 0, 0, 0, 2, 0, 44, 0, 0, 0, 18, 0, 0, 0,
    138, 23, 0, 0, 0, 0, 0, 0, 2, 0, 44, 0, 0, 0, 18, 0, 0, 0, 144, 23, 0, 0,
    0, 0, 0, 0, 2, 0, 108, 0, 0, 0, 12, 0, 0, 0, 11, 0, 0, 0, 132, 0, 0, 0, 0,
    0, 0, 0
  >>

\* the xz streams of the empty file, of "a" and of "ab"
XzOfEmpty ==
  <<
    253, 55, 122, 88, 90, 0, 0, 4, 230, 214, 180, 70, 0, 0, 0, 0, 28, 223, 68,
    33, 31, 182, 243, 125, 1, 0, 0, 0, 0, 4, 89, 90
  >>
XzOfA ==
  <<
    253, 55, 122, 88, 90, 0, 0, 4, 230, 214, 180, 70, 2, 0, 33, 1, 22, 0, 0,
    0, 116, 47, 229, 163, 1, 0, 0, 97, 0, 0, 0, 0, 5, 43, 101, 46, 119, 132,
    2, 51, 0, 1, 25, 1, 165, 44, 129, 204, 31, 182, 243, 125, 1, 0, 0, 0, 0,
    4, 89, 90
  >>
XzOfAB ==
  <<
    253, 55, 122, 88, 90, 0, 0, 4, 230, 214, 180, 70, 2, 0, 33, 1, 22, 0, 0,
    0, 116, 47, 229, 163, 1, 0, 1, 97, 98, 0, 0, 0, 70, 176, 132, 14, 32, 115,
    101, 188, 0, 1, 26, 2, 220, 46, 165, 126, 31, 182, 243, 125, 1, 0, 0, 0,
    0, 4, 89, 90
  >>

\* the six bytes every xz stream starts with
XZ_MAGIC == <<253, 55, 122, 88, 90, 0>>

\* sha2::Sha256 of the byte strings hashed here
Sha256(data) ==
    CASE data = <<>> -> <<227, 176, 196, 66, 152, 252, 28, 20, 154, 251, 244, 200, 153, 111, 185, 36, 39, 174, 65, 228, 100, 155, 147, 76, 164, 149, 153, 27, 120, 82, 184, 85>>
      [] data = <<97>> -> <<202, 151, 129, 18, 202, 27, 189, 202, 250, 194, 49, 179, 154, 35, 220, 77, 167, 134, 239, 248, 20, 124, 78, 114, 185, 128, 119, 133, 175, 238, 72, 187>>
      [] data = <<98>> -> <<62, 35, 232, 22, 0, 57, 89, 74, 51, 137, 79, 101, 100, 225, 177, 52, 139, 189, 122, 0, 136, 212, 44, 74, 203, 115, 238, 174, 213, 156, 0, 157>>
      [] data = <<97, 98>> -> <<251, 142, 32, 252, 46, 76, 63, 36, 140, 96, 195, 155, 214, 82, 243, 193, 52, 114, 152, 187, 151, 123, 139, 77, 89, 3, 184, 80, 85, 98, 6, 3>>
      [] data = TestFile -> SubSeq(TEST_REPLY_DATA, 2 * CHUNK_OFF_LEN + 1,
                                   2 * CHUNK_OFF_LEN + DATA_HASH_LEN)
      [] data = XzTestFile -> SubSeq(XzTestVector, 2 * CHUNK_OFF_LEN + 1,
                                     2 * CHUNK_OFF_LEN + DATA_HASH_LEN)

\* what an XzDecoder gives for a whole stream: the file, or an error for
\* bytes that are no xz stream
XzDecodeAll(stream) ==
    IF Len(stream) < Len(XZ_MAGIC) \/ SubSeq(stream, 1, Len(XZ_MAGIC)) # XZ_MAGIC
    THEN [ok |-> FALSE, out |-> <<>>]
    ELSE [ok |-> TRUE,
          out |-> CASE stream = XzOfEmpty -> <<>>
                    [] stream = XzOfA -> <<97>>
                    [] stream = XzOfAB -> <<97, 98>>
                    [] stream = SubSeq(XzTestVector, LFO_RESP_HDR_LEN + 1,
                                       Len(XzTestVector) - CRC_LEN) -> XzTestFile]

\* the LfoResponse try_from_raw_lfo_payload builds: Direct { read_pos: 0 }
\* or Compressed { stream } with a decoder that has given nothing yet, and a
\* fresh running hash (the bytes it has taken)
LfoResponse_new(o) ==
    [header |-> o.header, lfo_data |-> o.lfo_data, mode |-> o.read_state,
     read_pos |-> 0, total_out |-> 0, read_hasher |-> <<>>]

NoResponse ==
    [header |-> NoHeader, lfo_data |-> <<>>, mode |-> "", read_pos |-> 0,
     total_out |-> 0, read_hasher |-> <<>>]

\* update_running_hash; a build without lfo-check-hash keeps no hash
update_running_hash(check_hash, hasher, buf) ==
    IF check_hash THEN hasher \o buf ELSE hasher

\* check_hash_matches: TRUE for Ok, FALSE for InvalidHash
check_hash_matches(check_hash, expected, hasher) ==
    ~check_hash \/ Sha256(hasher) = expected

\* the result of a call of read() or data(): the response after it, Ok or
\* the error, the count and bytes of an Ok, the fields of the error, and
\* whether the running hash was compared
CallRes(r, res, bytes, expected, actual, compared) ==
    [r |-> r, res |-> res, count |-> Len(bytes), bytes |-> bytes,
     expected |-> expected, actual |-> actual, compared |-> compared]

\* (mutant) data() of a compressed response returns the data as received
LfoResponse_data_NoDecompression(r, check_hash) ==
    IF Len(r.lfo_data) # r.header.payload_size
    THEN CallRes(r, "ReplyParseError", <<>>, r.header.payload_size, Len(r.lfo_data), FALSE)
    ELSE CallRes(r, "ok", r.lfo_data, 0, 0, FALSE)

\* (mutant) data() decodes with the stream of the reader and leaves it at
\* its end
LfoResponse_data_SharedStream(r, check_hash) ==
    CallRes([r EXCEPT !.total_out = Len(XzDecodeAll(r.lfo_data).out),
                      !.read_pos = Len(r.lfo_data)],
            "ok", IF r.mode = "Direct" THEN r.lfo_data ELSE XzDecodeAll(r.lfo_data).out,
            0, 0, FALSE)

\* LfoResponse::data(&self)
LfoResponse_data(r, check_hash) ==
    LET dec == XzDecodeAll(r.lfo_data)
        full_data == IF r.mode = "Direct" THEN r.lfo_data ELSE dec.out
    IN  IF r.mode = "Compressed" /\ ~dec.ok
        THEN CallRes(r, "Io", <<>>, 0, 0, FALSE)
        ELSE IF Len(full_data) # r.header.payload_size
        THEN CallRes(r, "ReplyParseError", <<>>, r.header.payload_size, Len(full_data), FALSE)
        ELSE IF ~check_hash_matches(check_hash, r.header.data_hash, full_data)
        THEN CallRes(r, "InvalidHash", <<>>, 0, 0, TRUE)
        ELSE CallRes(r, "ok", full_data, 0, 0, check_hash)

\* (mutant) read_pos is advanced before the hash is compared
LfoResponse_read_Direct_AdvanceFirst(r, n, check_hash) ==
    LET remaining == SubSeq(r.lfo_data, r.read_pos + 1, Len(r.lfo_data))
        count == Min(n, Len(remaining))
        chunk == SubSeq(remaining, 1, count)
        hasher == update_running_hash(check_hash, r.read_hasher, chunk)
    IN  IF count = Len(remaining) /\ count # 0
        THEN IF check_hash_matches(check_hash, r.header.data_hash, hasher)
             THEN CallRes([r EXCEPT !.read_hasher = <<>>, !.read_pos = @ + count],
                          "ok", chunk, 0, 0, check_hash)
             ELSE CallRes([r EXCEPT !.read_hasher = <<>>, !.read_pos = @ + count],
                          "InvalidHash", <<>>, 0, 0, TRUE)
        ELSE CallRes([r EXCEPT !.read_hasher = hasher, !.read_pos = @ + count],
                     "ok", chunk, 0, 0, FALSE)

\* read() of a Direct response into a buffer of n bytes
LfoResponse_read_Direct(r, n, check_hash) ==
    LET remaining == SubSeq(r.lfo_data, r.read_pos + 1, Len(r.lfo_data))
        count == Min(n, Len(remaining))
        chunk == SubSeq(remaining, 1, count)
        hasher == update_running_hash(check_hash, r.read_hasher, chunk)
    IN  IF count = Len(remaining) /\ count # 0
        THEN IF check_hash_matches(check_hash, r.header.data_hash, hasher)
             THEN CallRes([r EXCEPT !.read_hasher = <<>>, !.read_pos = @ + count],
                          "ok", chunk, 0, 0, check_hash)
             ELSE CallRes([r EXCEPT !.read_hasher = <<>>], "InvalidHash", <<>>, 0, 0, TRUE)
        ELSE CallRes([r EXCEPT !.read_hasher = hasher, !.read_pos = @ + count],
                     "ok", chunk, 0, 0, FALSE)

\* the counts stream.read may return for a buffer of n bytes: 0 for an
\* empty buffer or at the end of the stream, else all that fits or, for a
\* short read, a single byte
StreamReadCounts(r, n) ==
    LET left == Len(XzDecodeAll(r.lfo_data).out) - r.total_out
    IN  IF n = 0 \/ left = 0 THEN {0} ELSE {1, Min(n, left)}

\* (mutant) the size of the output is not looked at
LfoResponse_read_Compressed_NoSize(r, count, check_hash) ==
    LET dec == XzDecodeAll(r.lfo_data)
        chunk == SubSeq(dec.out, r.total_out + 1, r.total_out + count)
        hasher == update_running_hash(check_hash, r.read_hasher, chunk)
        total_out == r.total_out + count
    IN  CallRes([r EXCEPT !.read_hasher = hasher, !.total_out = total_out],
                "ok", chunk, 0, 0, FALSE)

\* read() of a Compressed response when stream.read gives count bytes
LfoResponse_read_Compressed(r, count, check_hash) ==
    LET dec == XzDecodeAll(r.lfo_data)
        chunk == SubSeq(dec.out, r.total_out + 1, r.total_out + count)
        hasher == update_running_hash(check_hash, r.read_hasher, chunk)
        total_out == r.total_out + count
    IN  IF ~dec.ok
        THEN CallRes(r, "Io", <<>>, 0, 0, FALSE)
        ELSE IF total_out > r.header.payload_size
        THEN CallRes([r EXCEPT !.read_hasher = hasher, !.total_out = total_out],
                     "InvalidFinalSize", <<>>, r.header.payload_size, total_out, FALSE)
        ELSE IF count # 0 /\ total_out = r.header.payload_size
        THEN IF check_hash_matches(check_hash, r.header.data_hash, hasher)
             THEN CallRes([r EXCEPT !.read_hasher = <<>>, !.total_out = total_out],
                          "ok", chunk, 0, 0, check_hash)
             ELSE CallRes([r EXCEPT !.read_hasher = <<>>, !.total_out = total_out],
                          "InvalidHash", <<>>, 0, 0, TRUE)
        ELSE CallRes([r EXCEPT !.read_hasher = hasher, !.total_out = total_out],
                     "ok", chunk, 0, 0, FALSE)

(***************************************************************************)
(* A response is built from a ReplyOk payload and consumed                 *)
(***************************************************************************)
\* a u32 given as its halves, as big-endian bytes
HalvesBytes(h) == <<h[1] \div 256, h[1] % 256, h[2] \div 256, h[2] % 256>>

\* the ReplyOk payload a server builds for data
MakeReply(chunk_end_off, data_hash, comp_format, data) ==
    to_be_bytes(0, CHUNK_OFF_LEN) \o to_be_bytes(chunk_end_off, CHUNK_OFF_LEN)
        \o data_hash \o to_be_bytes(comp_format, COMP_FORMAT_LEN)
        \o data \o HalvesBytes(crc32fast_hash(data))

SmallFiles == {<<>>, <<97>>, <<97, 98>>}
XzOf(file) ==
    CASE file = <<>> -> XzOfEmpty
      [] file = <<97>> -> XzOfA
      [] file = <<97, 98>> -> XzOfAB
\* a digest that is the digest of none of the files
OtherHash == Sha256(<<98>>)

\* payloads that parse, with the file they carry: the payloads of the
\* crate's tests; small files sent as they are or as xz, with the right
\* data_hash or another, and, as xz, with the right chunk_end_off, one more or
\* one less.  valid: data_hash and chunk_end_off are those of the file
ResponseCases ==
    { [payload |-> TEST_REPLY_DATA, file |-> TestFile, valid |-> TRUE],
      [payload |-> XzTestVector, file |-> XzTestFile, valid |-> TRUE] }
    \cup { [payload |-> MakeReply(Len(f), h, CompressionFormats_None, f),
            file |-> f, valid |-> (h = Sha256(f))] :
           f \in SmallFiles, h \in {Sha256(<<>>), Sha256(<<97>>), Sha256(<<97, 98>>), OtherHash} }
    \cup { [payload |-> MakeReply(Len(f) + d, h, CompressionFormats_Xz, XzOf(f)),
            file |-> f, valid |-> (h = Sha256(f) /\ d = 0)] :
           f \in SmallFiles, d \in {0, 1},
           h \in {Sha256(<<>>), Sha256(<<97>>), Sha256(<<97, 98>>), OtherHash} }
    \cup { [payload |-> MakeReply(Len(f) - 1, h, CompressionFormats_Xz, XzOf(f)),
            file |-> f, valid |-> FALSE] :
           f \in SmallFiles \ {<<>>},
           h \in {Sha256(<<>>), Sha256(<<97>>), Sha256(<<97, 98>>), OtherHash} }

BufSizes == 0..MaxBuf \cup {WholeBuf}

NoCall == [op |-> "", n |-> 0, res |-> "", count |-> 0, bytes |-> <<>>,
           expected |-> 0, actual |-> 0, compared |-> FALSE]

\* a payload has arrived in a ReplyOk.  check_hash: the build has the
\* feature lfo-check-hash (lfo-compress-xz is on)
ResponseStart(c, check_hash) ==
    [pc |-> "payload", payload |-> c.payload, file |-> c.file, valid |-> c.valid,
     check_hash |-> check_hash, resp |-> NoResponse, built |-> NoResponse,
     delivered |-> <<>>, checks |-> 0, failed |-> FALSE, last |-> NoCall]

ResponseInit ==
    /\ SessionInit(MaxCap)
    /\ HandshakeIdle
    /\ link = Off
    /\ other = Off
    /\ \E c \in ResponseCases, check_hash \in BOOLEAN :
           calc = ResponseStart(c, check_hash)

\* LfoResponse::try_from_raw_lfo_payload(payload)
CallTryFromPayload ==
    /\ calc.pc = "payload"
    /\ \E o \in {try_from_raw_lfo_payload(calc.payload, TRUE)} :
           calc' = IF o.res = "ok"
                   THEN [calc EXCEPT !.pc = "response", !.resp = LfoResponse_new(o),
                                     !.built = LfoResponse_new(o)]
                   ELSE [calc EXCEPT !.pc = "refused",
                                     !.last = [NoCall EXCEPT !.op = "try_from",
                                                             !.res = o.res]]
    /\ CalcOnly

\* the response after a call, with what the caller has been given
AfterCall(op, n, c) ==
    [calc EXCEPT !.resp = c.r,
                 !.delivered = IF op = "read" THEN @ \o c.bytes ELSE @,
                 !.checks = IF op = "read" /\ c.compared THEN @ + 1 ELSE @,
                 !.failed = @ \/ (op = "read" /\ c.res # "ok"),
                 !.last = [op |-> op, n |-> n, res |-> c.res, count |-> c.count,
                           bytes |-> c.bytes, expected |-> c.expected,
                           actual |-> c.actual, compared |-> c.compared]]

\* resp.read(&mut buf) with a buffer of n bytes
CallRead ==
    /\ calc.pc = "response"
    /\ calc.checks < MaxHashChecks
    /\ \E n \in BufSizes :
           IF calc.resp.mode = "Direct"
           THEN calc' = AfterCall("read", n,
                                  LfoResponse_read_Direct(calc.resp, n, calc.check_hash))
           ELSE \E count \in StreamReadCounts(calc.resp, n) :
                    calc' = AfterCall("read", n,
                                      LfoResponse_read_Compressed(calc.resp, count,
                                                                  calc.check_hash))
    /\ CalcOnly

\* resp.data()
CallData ==
    /\ calc.pc = "response"
    /\ calc' = AfterCall("data", 0, LfoResponse_data(calc.resp, calc.check_hash))
    /\ CalcOnly

NextResponse ==
    \/ CallTryFromPayload
    \/ CallRead
    \/ CallData

SpecResponse == ResponseInit /\ [][NextResponse]_vars

\* the streaming read has come to its end: a read() into a buffer with room
\* has returned Ok(0)
ReadToEnd ==
    /\ calc.pc = "response"
    /\ calc.last.op = "read"
    /\ calc.last.res = "ok"
    /\ calc.last.n > 0
    /\ calc.last.count = 0

\* C21: for a payload with the CRC, the data_hash and the chunk_end_off of
\* its file, in direct and in compressed mode, data() returns the file, no
\* read() fails, the reads deliver the file from its start whatever the sizes
\* of the buffers, all of it once they reach the end, and the length of the
\* file is chunk_end_off
C21_DataAndReadGiveTheFile ==
    (calc.pc = "response" /\ calc.valid) =>
        /\ calc.resp.header.payload_size = Len(calc.file)
        /\ calc.last.op = "data" => (calc.last.res = "ok" /\ calc.last.bytes = calc.file)
        /\ ~calc.failed
        /\ IsPrefix(calc.delivered, calc.file)
        /\ ReadToEnd => calc.delivered = calc.file

\* the file of xz_test_vector has been read to its end in more than one read
C21_Witness ==
    /\ ReadToEnd
    /\ calc.payload = XzTestVector
    /\ calc.delivered = XzTestFile
    /\ calc.resp.mode = "Compressed"
    /\ calc.check_hash
    /\ calc.checks = 1

\* a call of data() returns what it returns on the response as built
DataAsOnBuiltResponse ==
    (calc.pc = "response" /\ calc.last.op = "data") =>
        /\ calc.last.res = LfoResponse_data(calc.built, calc.check_hash).res
        /\ calc.last.bytes = LfoResponse_data(calc.built, calc.check_hash).bytes
        /\ calc.valid => calc.last.bytes = calc.file

\* a call of data() changes neither the reader (read position, decoder,
\* running hash) nor what the reads have delivered
DataKeepsReader ==
    (calc.pc = "response" /\ calc'.last.op = "data") =>
        /\ calc'.resp = calc.resp
        /\ calc'.delivered = calc.delivered
        /\ calc'.checks = calc.checks

\* C22: data() and read() may be interleaved: every data() returns the same
\* full file however many bytes the reads have delivered, and leaves the
\* state of the reader unchanged, so that the reads deliver what they would
\* without it
C22_DataAndReadInterleave ==
    /\ []DataAsOnBuiltResponse
    /\ [][DataKeepsReader]_vars

\* data() has returned the file between two reads of a compressed response
C22_Witness ==
    /\ calc.pc = "response"
    /\ calc.last.op = "data"
    /\ calc.last.res = "ok"
    /\ calc.resp.mode = "Compressed"
    /\ calc.resp.total_out = 1
    /\ calc.delivered = <<97>>
    /\ calc.last.bytes = <<97, 98>>

\* C25: in compressed mode, the read() with which the output of the decoder
\* goes above chunk_end_off fails with InvalidFinalSize(expected =
\* chunk_end_off, actual = the total output) and returns no count; the reads
\* that return a count have delivered no more than chunk_end_off bytes
C25_InvalidFinalSize ==
    (calc.pc = "response" /\ calc.resp.mode = "Compressed") =>
        /\ Len(calc.delivered) <= calc.resp.header.payload_size
        /\ (calc.last.op = "read" /\ calc.resp.total_out > calc.resp.header.payload_size) =>
               /\ calc.last.res = "InvalidFinalSize"
               /\ calc.last.expected = calc.resp.header.payload_size
               /\ calc.last.actual = calc.resp.total_out
               /\ calc.last.count = 0
        /\ (calc.last.op = "read" /\ calc.last.res = "InvalidFinalSize") =>
               calc.resp.total_out > calc.resp.header.payload_size

\* the xz stream of "ab" with chunk_end_off 1: a read of two bytes fails
\* with InvalidFinalSize(1, 2)
C25_Witness ==
    /\ calc.pc = "response"
    /\ calc.resp.mode = "Compressed"
    /\ calc.file = <<97, 98>>
    /\ calc.last.op = "read"
    /\ calc.last.res = "InvalidFinalSize"
    /\ calc.last.expected = 1
    /\ calc.last.actual = 2
    /\ calc.delivered = <<>>

\* in a build with lfo-check-hash, as long as no read() has failed: the
\* running hash holds the bytes delivered until it is compared, and it has
\* been compared once if the reads have delivered chunk_end_off bytes, not at
\* all if they have not
HashComparedAtEnd ==
    /\ calc.checks = 0 => calc.resp.read_hasher = calc.delivered
    /\ calc.checks = (IF Len(calc.delivered) = calc.resp.header.payload_size
                      THEN 1 ELSE 0)

\* a read() into a buffer with room has returned, and no read() has failed
HasReadUnfailed ==
    /\ calc.pc = "response"
    /\ calc.check_hash
    /\ ~calc.failed
    /\ calc.last.op = "read"
    /\ calc.last.n > 0

\* the bytes the reads have taken from the file when the running hash is
\* compared for the first time
BytesRead ==
    IF calc.resp.mode = "Direct" THEN calc.built.lfo_data
    ELSE SubSeq(calc.file, 1, calc.resp.total_out)

\* C24: for every response, chunk_end_off 0 included, direct or compressed,
\* the running hash covers the bytes delivered so far and is compared to
\* data_hash once, at the read() with which the output reaches chunk_end_off;
\* a mismatch makes that read() fail
C24_HashComparedOnceAtEnd ==
    /\ HasReadUnfailed => HashComparedAtEnd
    /\ (calc.pc = "response" /\ calc.last.op = "read" /\ calc.last.compared
        /\ calc.checks = 1) =>
           (calc.last.res = "InvalidHash"
                <=> Sha256(BytesRead) # calc.resp.header.data_hash)

\* the same for the responses whose chunk_end_off is not 0; with
\* chunk_end_off 0 the running hash is never compared
HashComparedOnceAtEndOfNonEmpty ==
    HasReadUnfailed =>
        IF calc.resp.header.payload_size > 0 THEN HashComparedAtEnd
        ELSE calc.checks = 0

(***************************************************************************)
(* A response is built from a payload with one byte changed                *)
(***************************************************************************)
\* what a byte may be changed into: one more, one less, the top bit flipped
ChangedBytes(b) == {(b + 1) % (U8_MAX + 1), (b + U8_MAX) % (U8_MAX + 1),
                    (b + (U8_MAX + 1) \div 2) % (U8_MAX + 1)}

\* the changes of the byte at i; the first byte of the two offsets is only
\* increased, which keeps the offsets below 2^31
ChangedBytesAt(payload, i) ==
    IF i \in {1, CHUNK_OFF_LEN + 1} THEN {(payload[i] + 1) % (U8_MAX + 1)}
    ELSE ChangedBytes(payload[i])

\* the valid payloads of the small files, direct and xz
ValidPayloads ==
    {c.payload : c \in {d \in ResponseCases : d.valid /\ d.file \in SmallFiles}}

FileOfPayload(payload) ==
    (CHOOSE c \in ResponseCases : c.payload = payload).file

\* a valid payload in which one byte before the trailing CRC is changed
CorruptInit ==
    /\ SessionInit(MaxCap)
    /\ HandshakeIdle
    /\ link = Off
    /\ other = Off
    /\ \E payload \in ValidPayloads, check_hash \in BOOLEAN :
         \E i \in 1..(Len(payload) - CRC_LEN) :
           \E b \in ChangedBytesAt(payload, i) :
               calc = ResponseStart([payload |-> [payload EXCEPT ![i] = b],
                                     file |-> FileOfPayload(payload), valid |-> FALSE],
                                    check_hash)

SpecCorrupt == CorruptInit /\ [][NextResponse]_vars

\* C23: a valid payload with one byte outside the trailing CRC changed
\* (in a build that checks the hash): the construction fails with
\* ReplyParseError, or else data() and a full streaming read() fail with
\* InvalidHash; neither returns the complete data
C23_CorruptionDetected ==
    calc.check_hash =>
        /\ calc.pc = "refused" => calc.last.res = "ReplyParseError"
        /\ calc.pc = "response" =>
               /\ calc.last.op = "data" => calc.last.res = "InvalidHash"
               /\ (calc.last.op = "read" /\ calc.last.res # "ok") =>
                      calc.last.res = "InvalidHash"
               /\ ~ReadToEnd

\* what holds of data() alone: it never returns the data of a payload with
\* one byte changed
DataFailsOnCorrupt ==
    (calc.check_hash /\ calc.pc = "response" /\ calc.last.op = "data") =>
        calc.last.res # "ok"

(***************************************************************************)
(* The request of the file service: LfoRequest                             *)
(***************************************************************************)
\* the lengths of cid and of aid, and the constant written after them
LFO_ID_LEN == 16
REQ_CONST == 8
REQ_CONST_LEN == 4
REQ_OFFSET_LEN == 4
REQ_COMPRESSION_LEN == 2
\* hex::decode of DEFAULT_CID_HEX and of DEFAULT_AID_HEX
DEFAULT_CID == Fill(LFO_ID_LEN, 0)
DEFAULT_AID == Fill(LFO_ID_LEN, 0)

\* LfoRequest::new_simple, new_custom (remote_path as its UTF-8 bytes)
LfoRequest_new_simple(remote_path) ==
    [cid |-> DEFAULT_CID, aid |-> DEFAULT_AID, compression |-> 0,
     remote_path |-> remote_path, offset |-> 0]
LfoRequest_new_custom(cid, aid, compression, remote_path) ==
    [cid |-> cid, aid |-> aid, compression |-> compression,
     remote_path |-> remote_path, offset |-> 0]

\* (mutant) the compression is written before the offset
LfoRequest_to_payload_CompressionFirst(req) ==
    req.cid \o req.aid \o to_be_bytes(REQ_CONST, REQ_CONST_LEN)
        \o to_be_bytes(req.compression, REQ_COMPRESSION_LEN)
        \o to_be_bytes(req.offset, REQ_OFFSET_LEN) \o req.remote_path

\* LfoRequest::to_payload
LfoRequest_to_payload(req) ==
    req.cid \o req.aid \o to_be_bytes(REQ_CONST, REQ_CONST_LEN)
        \o to_be_bytes(req.offset, REQ_OFFSET_LEN)
        \o to_be_bytes(req.compression, REQ_COMPRESSION_LEN) \o req.remote_path

\* String::from_utf8 on bytes that are ASCII or can start no UTF-8 sequence:
\* the bytes are a string when all are ASCII
is_utf8(b) == \A i \in 1..Len(b) : b[i] < 128

\* LfoRequest::try_from_payload: the reads of the cursor fail with an Io
\* error on a payload that ends before them
LfoRequest_try_from_payload(payload) ==
    LET fixed == 2 * LFO_ID_LEN + REQ_CONST_LEN + REQ_OFFSET_LEN + REQ_COMPRESSION_LEN
        at == 2 * LFO_ID_LEN + REQ_CONST_LEN
        remote_path == SubSeq(payload, fixed + 1, Len(payload))
        none == LfoRequest_new_simple(<<>>)
    IN  IF Len(payload) < fixed THEN [res |-> "Io", req |-> none]
        ELSE IF ~is_utf8(remote_path) THEN [res |-> "InvalidRequest", req |-> none]
        ELSE [res |-> "ok",
              req |-> [cid |-> SubSeq(payload, 1, LFO_ID_LEN),
                       aid |-> SubSeq(payload, LFO_ID_LEN + 1, 2 * LFO_ID_LEN),
                       compression |-> from_be_bytes(SubSeq(payload, at + REQ_OFFSET_LEN + 1,
                                                            fixed)),
                       remote_path |-> remote_path,
                       offset |-> from_be_bytes(SubSeq(payload, at + 1,
                                                       at + REQ_OFFSET_LEN))]]

(***************************************************************************)
(* Calls of LfoRequest                                                     *)
(***************************************************************************)
\* "", "x", "/a", "/b", "/test/foo"
RequestPaths ==
    {<<>>, <<120>>, <<47, 97>>, <<47, 98>>, <<47, 116, 101, 115, 116, 47, 102, 111, 111>>}
RequestIds(base) == {Fill(LFO_ID_LEN, 0), [i \in 1..LFO_ID_LEN |-> base + i]}

\* the requests the constructors give
LfoRequests ==
    {LfoRequest_new_simple(path) : path \in RequestPaths}
    \cup {LfoRequest_new_custom(cid, aid, compression, path) :
            cid \in RequestIds(0), aid \in RequestIds(LFO_ID_LEN),
            compression \in {CompressionFormats_None, CompressionFormats_Xz},
            path \in RequestPaths}

\* payloads that are not those of a request: too short, or with a path that
\* is no UTF-8
BadRequestPayloads ==
    {<<>>, Fill(2 * LFO_ID_LEN, 0), Fill(2 * LFO_ID_LEN + REQ_CONST_LEN + REQ_OFFSET_LEN + 1, 0),
     LfoRequest_to_payload(LfoRequest_new_simple(<<47, 255>>))}

NoRequestOut == [res |-> "", req |-> LfoRequest_new_simple(<<>>)]

RequestsInit ==
    /\ SessionInit(MaxCap)
    /\ HandshakeIdle
    /\ link = Off
    /\ other = Off
    /\ \/ \E req \in LfoRequests :
              calc = [pc |-> "request", req |-> req, payload |-> <<>>,
                      out |-> NoRequestOut]
       \/ \E payload \in BadRequestPayloads :
              calc = [pc |-> "received", req |-> LfoRequest_new_simple(<<>>),
                      payload |-> payload, out |-> NoRequestOut]

\* request.to_payload()
CallToPayload ==
    /\ calc.pc = "request"
    /\ calc' = [calc EXCEPT !.pc = "payload", !.payload = LfoRequest_to_payload(calc.req)]
    /\ CalcOnly

\* LfoRequest::try_from_payload on the payload of a request
CallRequestFromPayload ==
    /\ calc.pc = "payload"
    /\ calc' = [calc EXCEPT !.pc = "roundtrip",
                            !.out = LfoRequest_try_from_payload(calc.payload)]
    /\ CalcOnly

\* LfoRequest::try_from_payload on other bytes
CallRequestFromBytes ==
    /\ calc.pc = "received"
    /\ calc' = [calc EXCEPT !.pc = "parsed",
                            !.out = LfoRequest_try_from_payload(calc.payload)]
    /\ CalcOnly

NextRequests ==
    \/ CallToPayload
    \/ CallRequestFromPayload
    \/ CallRequestFromBytes

SpecRequests == RequestsInit /\ [][NextRequests]_vars

\* C27: the payload of a request is cid, aid, 00 00 00 08, the offset, the
\* compression and the bytes of the path up to its end, and parsing it gives
\* a request equal to the original
C27_RequestRoundTrip ==
    /\ calc.pc \in {"payload", "roundtrip"} =>
           /\ Len(calc.payload) = 42 + Len(calc.req.remote_path)
           /\ SubSeq(calc.payload, 1, 16) = calc.req.cid
           /\ SubSeq(calc.payload, 17, 32) = calc.req.aid
           /\ SubSeq(calc.payload, 33, 36) = <<0, 0, 0, 8>>
           /\ SubSeq(calc.payload, 37, 40) = <<0, 0, 0, 0>>
           /\ SubSeq(calc.payload, 41, 42) = <<0, calc.req.compression>>
           /\ SubSeq(calc.payload, 43, Len(calc.payload)) = calc.req.remote_path
    /\ calc.pc = "roundtrip" => (calc.out.res = "ok" /\ calc.out.req = calc.req)

\* a request for "/test/foo" with xz and ids that are not zero has gone
\* through to_payload and try_from_payload
C27_Witness ==
    /\ calc.pc = "roundtrip"
    /\ calc.req.remote_path = <<47, 116, 101, 115, 116, 47, 102, 111, 111>>
    /\ calc.req.compression = 1
    /\ calc.req.cid # DEFAULT_CID
    /\ calc.out.req = calc.req

(***************************************************************************)
(* LfoClient::get against a file server                                    *)
(***************************************************************************)
\* the most calls of get on one connection
MaxGets == 3

\* (mutant) the request is sent with version Normal
GetPacket_VersionNormal(request) ==
    CloudProtoPacket(Magic_LFO, LfoKindToU8(LfoKind_GetFileRequest), Version_Normal,
                     LfoRequest_to_payload(request))

\* the packet get builds for a request
GetPacket(request) ==
    CloudProtoPacket(Magic_LFO, LfoKindToU8(LfoKind_GetFileRequest), Version_Connect,
                     LfoRequest_to_payload(request))

\* what get returns: Ok(response) or the error, with the payload of the
\* reply it has classified
GetResult(request, res, raw_payload, consumed) ==
    [request |-> request, res |-> res, raw_payload |-> raw_payload,
     consumed |-> consumed]

\* get up to `self.sock.send(req_pkt).await?`
get_send(request, ok) ==
    IF ok THEN HsSent("await", <<FrameItem(to_buf(GetPacket(request)))>>, NoErr)
    ELSE HsSent("failed", <<>>, IoErr)

\* get from `self.sock.next().await` on: the item at the head of the read
\* half, or its end
get_reply(request, it) ==
    Only({ IF n.res = "none" THEN GetResult(request, "ClosedByPeer", <<>>, FALSE)
           ELSE IF n.res = "err" THEN GetResult(request, n.err.kind, <<>>, TRUE)
           ELSE Only({ GetResult(request, o.res,
                                 IF o.res = "ok" THEN o.raw_payload ELSE n.pkt.payload,
                                 TRUE) :
                       o \in {LfoResponse_try_from(n.pkt, TRUE)} }) :
           n \in {HsNext(it)} })

\* the requests given to get: for "/a", "/b" and "x"
GetRequests ==
    {LfoRequest_new_simple(<<47, 97>>), LfoRequest_new_simple(<<47, 98>>),
     LfoRequest_new_custom(DEFAULT_CID, DEFAULT_AID, CompressionFormats_Xz, <<120>>)}

\* the reply of the server of the model: the file "a" for "/a", as xz if
\* the request allows it; "internal error" for "/b"; a failure with another
\* text for every other path
ReplyFor(request) ==
    IF request.remote_path = <<47, 97>>
    THEN CloudProtoPacket(Magic_LFO, LfoKindToU8(LfoKind_ReplyOk), Version_Normal,
                          IF request.compression = CompressionFormats_Xz
                          THEN MakeReply(1, Sha256(<<97>>), CompressionFormats_Xz, XzOfA)
                          ELSE MakeReply(1, Sha256(<<97>>), CompressionFormats_None, <<97>>))
    ELSE IF request.remote_path = <<47, 98>>
    THEN CloudProtoPacket(Magic_LFO, LfoKindToU8(LfoKind_ReplyFail), Version_Normal,
                          Fill(FAIL_MSG_OFFSET, 0) \o InternalErrorText)
    ELSE CloudProtoPacket(Magic_LFO, LfoKindToU8(LfoKind_ReplyFail), Version_Normal,
                          Fill(FAIL_MSG_OFFSET, 0) \o OtherText \o request.remote_path)

\* a client and a server over a connection: the calls of get so far, the
\* frames the client has sent, the inbound items get has taken, the
\* requests the server has answered, and whether the server has closed
ClientInit ==
    /\ SessionInit(MaxCap)
    /\ hs_c = HsTask("off", NoInfo)
    /\ hs_s = HsTask("off", NoInfo)
    /\ c2s = <<>>
    /\ s2c = <<>>
    /\ link = Off
    /\ calc = Off
    /\ other = [pc |-> "idle", request |-> LfoRequest_new_simple(<<>>), calls |-> 0,
                results |-> <<>>, sent |-> <<>>, taken |-> 0, served |-> <<>>,
                closed |-> FALSE]

\* get is called and runs up to the end of its send; the write fails only
\* when the server has closed
ClientGetSend ==
    /\ other.pc = "idle"
    /\ other.calls < MaxGets
    /\ \E request \in GetRequests, ok \in (IF other.closed THEN BOOLEAN ELSE {TRUE}) :
         \E r \in {get_send(request, ok)} :
             /\ other' = [other EXCEPT
                            !.pc = IF r.pc = "await" THEN "await" ELSE "idle",
                            !.request = request,
                            !.calls = @ + 1,
                            !.sent = @ \o r.out,
                            !.results = IF r.pc = "await" THEN @
                                        ELSE Append(@, GetResult(request, r.err.kind,
                                                                 <<>>, FALSE))]
             /\ c2s' = c2s \o r.out
    /\ UNCHANGED <<hs_c, hs_s, s2c, svars, link, calc>>

\* get, from the arrival of an item or of the end to its return
ClientGetReply ==
    /\ other.pc = "await"
    /\ s2c # <<>> \/ other.closed
    /\ \E it \in {IF s2c # <<>> THEN Head(s2c) ELSE CloseItem} :
           other' = [other EXCEPT !.pc = "idle",
                                  !.taken = IF s2c # <<>> THEN @ + 1 ELSE @,
                                  !.results = Append(@, get_reply(other.request, it))]
    /\ s2c' = IF s2c # <<>> THEN Tail(s2c) ELSE s2c
    /\ UNCHANGED <<hs_c, hs_s, c2s, svars, link, calc>>

\* the server takes a request and sends its reply
ServerReplies ==
    /\ ~other.closed
    /\ c2s # <<>>
    /\ \E request \in {LfoRequest_try_from_payload(DecodeItem(Head(c2s)).pkt.payload).req} :
           /\ s2c' = Append(s2c, FrameItem(to_buf(ReplyFor(request))))
           /\ other' = [other EXCEPT !.served = Append(@, request)]
    /\ c2s' = Tail(c2s)
    /\ UNCHANGED <<hs_c, hs_s, svars, link, calc>>

\* the server closes the connection
ServerCloses ==
    /\ ~other.closed
    /\ other' = [other EXCEPT !.closed = TRUE]
    /\ UNCHANGED <<hvars, svars, link, calc>>

NextClient ==
    \/ ClientGetSend
    \/ ClientGetReply
    \/ ServerReplies
    \/ ServerCloses

SpecClient == ClientInit /\ [][NextClient]_vars

\* the requests of the calls of get whose send went through
SentRequests ==
    LET done == SelectSeq(other.results, LAMBDA g : g.res # "Io" \/ g.consumed)
    IN  [i \in 1..Len(done) |-> done[i].request]
            \o (IF other.pc = "await" THEN <<other.request>> ELSE <<>>)

\* what get makes of the reply of the server to a request
Classified(request) == get_reply(request, FrameItem(to_buf(ReplyFor(request))))

\* C26: each get sends one GetFileRequest packet (magic LFO, version
\* Connect) and then takes one inbound packet, which it classifies as the
\* reply; over the gets of a connection the i-th reply goes with the i-th
\* request; when the server has closed before the reply, get fails with
\* ClosedByPeer
C26_GetRequestReply ==
    /\ Len(other.sent) = Len(SentRequests)
    /\ \A i \in 1..Len(other.sent) :
           other.sent[i] = FrameItem(<<159, 1, 0, 2>>
                                     \o to_be_bytes(COMMON_HDR_LEN + Len(LfoRequest_to_payload(SentRequests[i])), 4)
                                     \o LfoRequest_to_payload(SentRequests[i]))
    /\ other.taken = Cardinality({i \in 1..Len(other.results) : other.results[i].consumed})
    /\ other.taken <= Len(other.sent)
    /\ \A i \in 1..Len(other.results) :
           LET g == other.results[i]
           IN  /\ g.consumed => g = Classified(g.request)
               /\ g.consumed => g.res \in {"ok", "NotFound", "ServerError"}
               /\ ~g.consumed => g.res \in {"ClosedByPeer", "Io"}
               /\ g.res = "ClosedByPeer" => other.closed
    /\ \A i \in 1..other.taken : other.served[i] = SentRequests[i]

\* three gets on one connection: a file, NotFound, and ClosedByPeer
C26_Witness ==
    /\ Len(other.results) = 3
    /\ other.results[1].res = "ok"
    /\ other.results[1].request.remote_path = <<47, 97>>
    /\ other.results[2].res = "NotFound"
    /\ other.results[3].res = "ClosedByPeer"
    /\ Len(other.sent) = 3

(***************************************************************************)
(* The two slots of the receive side: unacked_txid and unacked_event       *)
(***************************************************************************)
\* the receive state between polls
AckPending == unacked_txid # None /\ unacked_event # None
EventReady == unacked_txid = None /\ unacked_event # None
Idle == unacked_txid = None /\ unacked_event = None

\* the Ack frames passed to the write half whose bytes have all left the
\* write buffer for the transport
AcksWritten ==
    Cardinality({i \in 1..Len(outLog) :
                     IsAckFrame(outLog[i]) /\ TotalLen(SubSeq(outLog, 1, i)) <= wrote})

\* C28 as stated: the received Event packets whose Ack has not been written
\* to the transport are at most one, in every state.
C28_AtMostOneAckOffTheWire ==
    Len(WellFormedRecvTxids) - AcksWritten <= 1

\* C28 (as amended): the received Event packets whose Ack has not been passed
\* to start_send are at most one, the one whose txid is in its slot; an Ack
\* that was started and has not reached the transport is in the write buffer.
C28_AtMostOneAckNotStarted ==
    /\ Len(unacked_txid) <= 1
    /\ Len(WellFormedRecvTxids) - Len(SelectSeq(outLog, IsAckFrame)) = Len(unacked_txid)
    /\ Len(SelectSeq(outLog, IsAckFrame)) > AcksWritten => BufLen(Cur) > 0

\* the session is in EventReady after a poll, and the Acks of both events it
\* has received are still in the write buffer
C28_Witness ==
    /\ EventReady
    /\ last.kind = "pending"
    /\ Len(WellFormedRecvTxids) = 2
    /\ Len(SelectSeq(outLog, IsAckFrame)) = 2
    /\ AcksWritten = 0

\* C29: once the Ack has been passed to start_send and the event is ready, a
\* pending flush does not hold the event back: poll_next does not return
\* Pending with the txid slot empty and the event still buffered.
C29_PendingFlushReturnsEvent ==
    ~(last.kind = "pending" /\ EventReady)

\* a poll that takes an item from the read half starts with both slots empty
ReadsOnlyWhenIdle ==
    Len(inq') < Len(inq) \/ Len(recvLog') > Len(recvLog) => Idle

\* the slots hold at most one value each, a txid only with its event, and no
\* assert! of poll_next has failed
SlotsConsistent ==
    /\ Len(unacked_txid) <= 1
    /\ Len(unacked_event) <= 1
    /\ unacked_txid # None => unacked_event # None
    /\ last.kind # "panic"

\* C30: between polls a pending txid implies a pending event, at most one
\* event is buffered, a new inbound packet is read only when both slots are
\* empty, and none of the assertions of poll_next fires, whatever the read
\* and the write half give (Ready, Pending, error).
C30_SlotsConsistentNoPanic ==
    /\ []SlotsConsistent
    /\ [][ReadsOnlyWhenIdle]_vars

\* a poll has failed on the write half with both slots filled
C30_Witness ==
    /\ last.kind = "err"
    /\ AckPending
    /\ Len(recvLog) = 2

(***************************************************************************)
(* The session under inbound packets of every kind                         *)
(***************************************************************************)
\* the most items the peer puts on the wire
MaxKindItems == 3

\* Event packets whose payload is too short to hold a txid and an event id
ShortEventFrames ==
    {FrameItem(to_buf(CloudProtoPacket(Magic_TS, TsKindToU8(TsKind_Event),
                                       Version_Normal, Fill(n, 1)))) :
         n \in {0, HDR_TXID_SIZE - 1, HDR_TXID_SIZE + EVT_HDR_LEN - 1}}
\* Ack packets with a payload of 8 bytes, of none and of 3
AckFrames ==
    {FrameItem(to_buf(CloudProtoPacket(Magic_TS, TsKindToU8(TsKind_Ack),
                                       Version_Normal, payload))) :
         payload \in {to_be_bytes(FIRST_TXID, HDR_TXID_SIZE), <<>>, <<1, 2, 3>>}}
\* packets of the kinds Connect and 0x7f
OtherKindFrames ==
    {FrameItem(to_buf(CloudProtoPacket(Magic_TS, k, Version_Normal, <<9>>))) :
         k \in {TsKindToU8(TsKind_Connect), 127}}
KindItems ==
    {FrameItem(to_buf(EventPacket(5, Event_new(813695149, <<1, 2, 3>>))))}
        \cup ShortEventFrames \cup AckFrames \cup OtherKindFrames

\* the history of this scenario: the items the last poll_next has taken
KindsInit ==
    /\ \E c \in Caps : SessionInit(c)
    /\ HandshakeIdle
    /\ link = Off
    /\ calc = Off
    /\ other = [pc |-> "kinds", took |-> 0]

\* the peer puts an item on the wire, whether or not the one before was taken
PeerSendsAnyKind ==
    /\ nIn < MaxKindItems
    /\ nIn' = nIn + 1
    /\ \E it \in KindItems : Arrive(it)
    /\ NotAPoll
    /\ UNCHANGED <<next_txid, unacked_txid, unacked_event, inClosed, outLog, wrote,
                   cap, peerRead, outFail, wrWaker, recvLog, ghost_txid, delivered,
                   hvars, xvars>>

\* poll_next called at any time
PollKinds ==
    /\ last.kind # "panic"
    /\ \E r \in {KeepWakers(poll_next(Cur))} :
           /\ Commit(r.s)
           /\ last' = [kind |-> r.kind, err |-> r.err]
           /\ other' = [other EXCEPT !.took = Len(inq) - Len(r.s.inq)]
    /\ UNCHANGED <<woken, nIn, hvars, calc>>

\* the caller sends an event
KindsSinkSend ==
    /\ NumSent < 1
    /\ \E ev \in SentEvents, r \in {KeepWakers(Sink_poll_ready(Cur))} :
         \E s \in {IF r.res = "ready" THEN Sink_start_send(r.s, ev) ELSE r.s} :
             Commit(s)
    /\ NotAPoll
    /\ UNCHANGED <<woken, nIn, hvars, calc, other>>

NextKinds ==
    \/ PollKinds
    \/ PeerSendsAnyKind
    \/ KindsSinkSend
    \/ PeerRead

SpecKinds == KindsInit /\ [][NextKinds]_vars

\* the kind of the packet of a frame
IsSkippedFrame(it) == ~IsEventFrame(it.bytes)
IsKeptFrame(it) == IsEventFrame(it.bytes)

\* the first Event packet of the queue of the read half
FirstEventIn(q) ==
    CHOOSE k \in 1..Len(q) : IsEventFrame(q[k].bytes)
                               /\ \A j \in 1..(k - 1) : ~IsEventFrame(q[j].bytes)

\* a poll that takes an Event packet with a short payload returns
\* PayloadTooShort with the length of that payload and 12, starts no Ack,
\* leaves both slots empty and the packets behind it in the read half
ShortEventStep ==
    Len(recvLog') > Len(recvLog) /\ recvLog'[Len(recvLog')] = -1 =>
        \E k \in {FirstEventIn(inq)} :
            /\ last' = [kind |-> "err",
                        err |-> [kind |-> "PayloadTooShort",
                                 a |-> Len(inq[k].bytes) - COMMON_HDR_LEN, b |-> 12]]
            /\ Len(inq[k].bytes) - COMMON_HDR_LEN < 12
            /\ outLog' = outLog
            /\ unacked_txid' = None /\ unacked_event' = None
            /\ inq' = SubSeq(inq, k + 1, Len(inq))
            /\ delivered' = delivered

\* after a short Event packet the next poll takes what follows it
PollAfterShortEvent ==
    recvLog # <<>> /\ recvLog[Len(recvLog)] = -1 /\ inq # <<>> =>
        /\ Idle
        /\ Len(poll_next(Cur).s.inq) < Len(inq)

\* C31: an Event packet whose payload is shorter than 12 bytes makes
\* poll_next return PayloadTooShort(len, 12); no Ack is sent for it, the
\* slots stay empty, and the next poll continues with the packet after it.
C31_ShortEventPayload ==
    /\ [][ShortEventStep]_vars
    /\ []PollAfterShortEvent

\* a short Event packet was refused and the event behind it returned
C31_Witness ==
    /\ recvLog = <<-1, 5>>
    /\ last.kind = "event"
    /\ Len(SelectSeq(outLog, IsAckFrame)) = 1

\* what poll_next gives, without the read half
PollEffect(r) ==
    [kind |-> r.kind, ev |-> r.ev, err |-> r.err, next_txid |-> r.s.next_txid,
     unacked_txid |-> r.s.unacked_txid, unacked_event |-> r.s.unacked_event,
     outLog |-> r.s.outLog, wrote |-> r.s.wrote, delivered |-> r.s.delivered,
     recvLog |-> r.s.recvLog, inq |-> SelectSeq(r.s.inq, IsKeptFrame)]

\* C32: inbound packets of kind Ack, of any payload size, and of any kind
\* but Event are consumed without effect: poll_next gives the same result,
\* sends the same packets and leaves next_txid and the slots the same as
\* with these packets taken out of the read half, and it goes on to the
\* next packet in the same poll.
C32_AckAndOtherKindsSkipped ==
    /\ PollEffect(poll_next(Cur))
           = PollEffect(poll_next([Cur EXCEPT !.inq = SelectSeq(inq, IsKeptFrame)]))
    /\ Idle /\ inq # <<>> /\ (\A i \in 1..Len(inq) : IsSkippedFrame(inq[i])) =>
           \E r \in {poll_next(Cur)} :
               /\ r.s.inq = <<>>
               /\ r.kind = "pending"
               /\ r.s.outLog = outLog
               /\ r.s.next_txid = next_txid
               /\ r.s.unacked_txid = None /\ r.s.unacked_event = None

\* one poll has taken an Ack of bad size, a packet of another kind and an
\* event, and has returned the event
C32_Witness ==
    /\ last.kind = "event"
    /\ other.took = 3
    /\ Len(delivered) = 1
    /\ outLog = <<to_buf(AckPacket(5))>>

(***************************************************************************)
(* The session split into a sender and a receiver task                     *)
(***************************************************************************)
\* events the sender passes, items the peer puts on the wire
MaxSplitSends == 2
MaxSplitInbound == 1

\* the events the sender chooses from
SplitEvents == {Event_new(864026796, <<>>), Event_new(813695149, <<7>>)}
\* what the peer sends: an event, an Ack
SplitItems ==
    {FrameItem(to_buf(EventPacket(5, Event_new(813695149, <<1, 2, 3>>)))),
     FrameItem(to_buf(AckPacket(FIRST_TXID)))}

\* the history of this scenario: the events passed to start_send, in
\* order, and whether the sink has been closed
SplitInit ==
    /\ \E c \in Caps : SessionInit(c)
    /\ HandshakeIdle
    /\ link = Off
    /\ calc = Off
    /\ other = [pc |-> "split", sends |-> <<>>, closed |-> FALSE]

\* the receiver task polls the stream
ReceiverPoll ==
    /\ PollAnyTime

\* the sender task feeds an event: poll_ready, and start_send once Ready
SenderSend ==
    /\ ~other.closed
    /\ Len(other.sends) < MaxSplitSends
    /\ \E ev \in SplitEvents, r \in {KeepWakers(Sink_poll_ready(Cur))} :
           IF r.res = "ready"
           THEN /\ Commit(Sink_start_send(r.s, ev))
                /\ other' = [other EXCEPT !.sends = Append(@, ev)]
           ELSE /\ Commit(r.s)
                /\ other' = other
    /\ NotAPoll
    /\ UNCHANGED <<woken, nIn, hvars, calc>>

\* the sender task flushes the sink
SenderFlush ==
    /\ ~other.closed
    /\ SinkFlush

\* the sender task closes the sink
SenderClose ==
    /\ ~other.closed
    /\ \E r \in {KeepWakers(Sink_poll_close(Cur))} :
           /\ Commit(r.s)
           /\ other' = [other EXCEPT !.closed = (r.res = "ready")]
    /\ NotAPoll
    /\ UNCHANGED <<woken, nIn, hvars, calc>>

\* the peer puts an item on the wire
PeerSplitSend ==
    /\ nIn < MaxSplitInbound
    /\ nIn' = nIn + 1
    /\ \E it \in SplitItems : Arrive(it)
    /\ NotAPoll
    /\ UNCHANGED <<next_txid, unacked_txid, unacked_event, inClosed, outLog, wrote,
                   cap, peerRead, outFail, wrWaker, recvLog, ghost_txid, delivered,
                   hvars, xvars>>

NextSplit ==
    \/ ReceiverPoll
    \/ SenderSend
    \/ SenderFlush
    \/ SenderClose
    \/ PeerSplitSend
    \/ PeerRead
    \/ TransportFail

SpecSplit == SplitInit /\ [][NextSplit]_vars

\* a state of the session with other contents of the receive side
ReceiveSides ==
    {[unacked_txid |-> None, unacked_event |-> None, inq |-> <<>>],
     [unacked_txid |-> Some(5), unacked_event |-> Some(Event_new(813695149, <<1, 2, 3>>)),
      inq |-> <<FrameItem(to_buf(AckPacket(FIRST_TXID)))>>],
     [unacked_txid |-> None, unacked_event |-> Some(Event_new(813695149, <<1, 2, 3>>)),
      inq |-> <<>>]}
WithReceiveSide(s, rs) ==
    [s EXCEPT !.unacked_txid = rs.unacked_txid, !.unacked_event = rs.unacked_event,
              !.inq = rs.inq]

\* the functions of the sink give the same, and leave the receive side as it
\* is, whatever the receive side holds
SinkIgnoresReceiveSide ==
    \A rs \in ReceiveSides :
        /\ \A r \in {Sink_poll_ready(WithReceiveSide(Cur, rs))} :
               /\ r.res = Sink_poll_ready(Cur).res
               /\ r.s = WithReceiveSide(Sink_poll_ready(Cur).s, rs)
        /\ \A r \in {Sink_poll_flush(WithReceiveSide(Cur, rs))} :
               /\ r.res = Sink_poll_flush(Cur).res
               /\ r.s = WithReceiveSide(Sink_poll_flush(Cur).s, rs)
        /\ \A r \in {Sink_poll_close(WithReceiveSide(Cur, rs))} :
               /\ r.res = Sink_poll_close(Cur).res
               /\ r.s = WithReceiveSide(Sink_poll_close(Cur).s, rs)
        /\ \A ev \in SplitEvents :
               Sink_start_send(WithReceiveSide(Cur, rs), ev)
                   = WithReceiveSide(Sink_start_send(Cur, ev), rs)

\* the sink is held up by the write half alone: poll_ready is Pending only
\* with the write buffer at the backpressure boundary and the transport
\* full, poll_flush and poll_close only with more bytes than the transport
\* takes
SinkBlockedByWriteHalfOnly ==
    /\ Sink_poll_ready(Cur).res = "pending"
           <=> (BufLen(Cur) >= BackpressureBoundary /\ ~outFail /\ BufLen(Cur) > Avail(Cur))
    /\ Sink_poll_flush(Cur).res = "pending" <=> (~outFail /\ BufLen(Cur) > Avail(Cur))
    /\ Sink_poll_close(Cur).res = "pending" <=> (~outFail /\ BufLen(Cur) > Avail(Cur))

\* C33: the functions of the sink never read or change the two slots and
\* never wait for an inbound Ack, poll_next never changes next_txid, and a
\* caller that only sends is held up only by the backpressure of the write
\* half.
C33_SendAndReceiveIndependent ==
    /\ SinkIgnoresReceiveSide
    /\ SinkBlockedByWriteHalfOnly
    /\ last.kind # "panic" => poll_next(Cur).s.next_txid = next_txid
    /\ next_txid = FIRST_TXID + TXID_INCREMENT * Len(other.sends)

\* the sender has sent an event and is held up by the full transport, while
\* an item of the peer waits in the read half that no poll has taken
C33_Witness ==
    /\ Len(other.sends) = 1
    /\ Sink_poll_ready(Cur).res = "pending"
    /\ inq # <<>>
    /\ recvLog = <<>>
    /\ delivered = <<>>
    /\ rdWaker = FALSE

\* the frames a sequence of bytes is made of, cut at the length each header
\* announces; what is left when the bytes end within a frame
RECURSIVE WireFrames(_)
WireFrames(bytes) ==
    IF Len(bytes) < COMMON_HDR_LEN THEN <<>>
    ELSE LET n == from_be_bytes(SubSeq(bytes, 5, COMMON_HDR_LEN))
         IN  IF n < COMMON_HDR_LEN \/ Len(bytes) < n THEN <<>>
             ELSE <<SubSeq(bytes, 1, n)>> \o WireFrames(SubSeq(bytes, n + 1, Len(bytes)))

\* the bytes that have left for the transport, and those with the bytes
\* still in the write buffer
WireBytes == SubSeq(Flatten(outLog), 1, wrote)
WireAndBuffer == Flatten(outLog)

\* the Event packets the sender's calls of start_send make, in their order
ExpectedEventFrames ==
    [k \in 1..Len(other.sends) |->
        to_buf(EventPacket(FIRST_TXID + TXID_INCREMENT * (k - 1), other.sends[k]))]
\* the Ack packets of the received events, in their order
ExpectedAckFrames ==
    [k \in 1..Len(WellFormedRecvTxids) |-> to_buf(AckPacket(WellFormedRecvTxids[k]))]

\* C34: with a sender and a receiver driving the session one call at a
\* time, the outbound bytes are a concatenation of whole encoded packets,
\* each an Event packet of the sender or an Ack of the receiver, the bytes
\* of no two mixed, and the Event packets are in the order of the calls of
\* start_send.
C34_OutboundWholePackets ==
    \A frames \in {WireFrames(WireAndBuffer)} :
        /\ Flatten(frames) = WireAndBuffer
        /\ \A i \in 1..Len(frames) : IsAckFrame(frames[i]) \/ IsEventFrame(frames[i])
        /\ SelectSeq(frames, IsEventFrame) = ExpectedEventFrames
        /\ IsPrefix(SelectSeq(frames, IsAckFrame), ExpectedAckFrames)
        /\ IsPrefix(WireBytes, Flatten(frames))
        /\ \A w \in {WireFrames(WireBytes)} : IsPrefix(w, frames)

\* an Ack was started between two events of the sender while the first was
\* only partly on the transport, and all three packets have left
C34_Witness ==
    /\ Len(other.sends) = 2
    /\ Len(outLog) = 3
    /\ IsAckFrame(outLog[2])
    /\ other.sends[1] # other.sends[2]
    /\ wrote = Len(Flatten(outLog))
    /\ other.closed

(***************************************************************************)
(* The end of the streaming read                                           *)
(***************************************************************************)
\* C35: read() never reports a clean end after delivering a number of bytes
\* other than chunk_end_off: when a read() into a buffer with room returns
\* Ok(0) and no read() before it has failed, the reads have delivered
\* chunk_end_off bytes, in compressed mode also when the decoder reaches the
\* end of its stream below chunk_end_off.
C35_CleanEndOnlyAtChunkEnd ==
    (ReadToEnd /\ ~calc.failed) =>
        Len(calc.delivered) = calc.resp.header.payload_size

\* the same in direct mode, where the construction has compared the length
\* of the data with chunk_end_off
CleanEndOnlyAtChunkEndDirect ==
    (ReadToEnd /\ ~calc.failed /\ calc.resp.mode = "Direct") =>
        Len(calc.delivered) = calc.resp.header.payload_size

\* in direct mode read_pos is within the inner slice and is the number of
\* bytes the reads have returned, which are the start of the slice
ReadPosWithinSlice ==
    (calc.pc = "response" /\ calc.resp.mode = "Direct") =>
        /\ calc.resp.read_pos <= Len(calc.resp.lfo_data)
        /\ calc.resp.read_pos = Len(calc.delivered)
        /\ calc.delivered = SubSeq(calc.resp.lfo_data, 1, calc.resp.read_pos)

\* a read() gives its count as the advance of read_pos, and none when it
\* fails on the hash
ReadPosAdvance ==
    (calc.pc = "response" /\ calc.resp.mode = "Direct" /\ calc'.last.op = "read") =>
        /\ calc'.resp.read_pos = calc.resp.read_pos + calc'.last.count
        /\ calc'.last.count <= calc'.last.n
        /\ calc'.last.res = "InvalidHash" => calc'.resp.read_pos = calc.resp.read_pos

\* C36: in direct mode, after any reads with buffers of any size, zero
\* included, read_pos is at most the length of the inner slice and is the
\* sum of the counts returned, the bytes delivered are the start of the
\* slice of that length, and a read() that fails on the hash leaves read_pos
\* as it was.
C36_DirectReadPosition ==
    /\ []ReadPosWithinSlice
    /\ [][ReadPosAdvance]_vars

\* the last read of the file "ab" has failed on the hash after one byte was
\* delivered, and read_pos is still 1
C36_Witness ==
    /\ calc.pc = "response"
    /\ calc.resp.mode = "Direct"
    /\ calc.file = <<97, 98>>
    /\ calc.last.op = "read"
    /\ calc.last.res = "InvalidHash"
    /\ calc.resp.read_pos = 1
    /\ calc.delivered = <<97>>

(***************************************************************************)
(* The receive stream after the peer has closed                            *)
(***************************************************************************)
\* events the peer sends before it closes
MaxGoneInbound == 3

\* the history of this scenario: whether poll_next has returned None, and
\* the events the peer has sent
GoneInit ==
    /\ \E c \in Caps : SessionInit(c)
    /\ HandshakeIdle
    /\ link = Off
    /\ calc = Off
    /\ other = [pc |-> "gone", ended |-> FALSE, sent |-> 0]

\* the caller polls the stream, woken or not, until it is given None
GonePoll ==
    /\ ~other.ended
    /\ last.kind # "panic"
    /\ \E r \in {KeepWakers(poll_next(Cur))} :
           /\ Commit(r.s)
           /\ last' = [kind |-> r.kind, err |-> r.err]
           /\ other' = [other EXCEPT !.ended = (r.kind = "end")]
    /\ UNCHANGED <<woken, nIn, hvars, calc>>

\* the peer sends an event, whether or not the one before was taken
PeerGoneSends ==
    /\ ~inClosed
    /\ nIn < MaxGoneInbound
    /\ nIn' = nIn + 1
    /\ \E it \in PeerEventFrames : Arrive(it)
    /\ other' = [other EXCEPT !.sent = @ + 1]
    /\ NotAPoll
    /\ UNCHANGED <<next_txid, unacked_txid, unacked_event, inClosed, outLog, wrote,
                   cap, peerRead, outFail, wrWaker, recvLog, ghost_txid, delivered,
                   hvars, link, calc>>

\* the peer reads the Acks as long as it is there
PeerReadsBeforeClose ==
    /\ ~inClosed
    /\ PeerRead

\* once the peer is gone a write to the transport may fail
WriteFailsAfterClose ==
    /\ inClosed
    /\ TransportFail

NextGone ==
    \/ GonePoll
    \/ PeerGoneSends
    \/ PeerReadsBeforeClose
    \/ PeerClose
    \/ WriteFailsAfterClose

\* the caller keeps polling
SpecGone == GoneInit /\ [][NextGone]_vars /\ WF_vars(GonePoll)

\* when poll_next returns None every event the peer has sent has been
\* returned, in the order of the wire
NoneAfterAllEvents ==
    other.ended =>
        /\ inClosed
        /\ inq = <<>>
        /\ Len(delivered) = other.sent
        /\ DeliveredTxids = recvLog

\* C37: after the peer has closed, a caller that keeps polling is given
\* finitely many items and then None, and every Event packet received
\* before the close is returned before that None, also when the write of
\* its Ack fails or stays pending.
C37_ClosedStreamEnds ==
    /\ [](inClosed => <>other.ended)
    /\ []NoneAfterAllEvents

(***************************************************************************)
(* Progress of the read half                                               *)
(***************************************************************************)
\* the bytes the read half has taken out of its input: read from the
\* transport and no longer in the buffer of the codec
BytesConsumed(l) == l.peerRead - Len(l.buffer)

\* a poll of the read half has given a packet or an error item
GivesItem ==
    /\ Len(link'.got) > Len(link.got)
    /\ link'.got[Len(link'.got)].res \in {"pkt", "err"}

\* C38: on bytes followed by a close, with frames whose length field is
\* below 8 or 0 among them, every item the read half gives has consumed at
\* least one byte of the input, so the items are no more than the bytes.
C38_EveryItemConsumesInput ==
    [][(link.pc = "on" /\ link.fails = 0 /\ GivesItem) =>
           BytesConsumed(link') > BytesConsumed(link)]_vars

\* an item that is a packet has consumed the bytes of its frame, which are
\* at least those of a header
PacketConsumesItsFrame ==
    [][(link.pc = "on" /\ Len(link'.got) > Len(link.got)
        /\ link'.got[Len(link'.got)].res = "pkt") =>
           BytesConsumed(link') = BytesConsumed(link) + COMMON_HDR_LEN
                                      + Len(link'.got[Len(link'.got)].pkt.payload)]_vars
====
